---- MODULE Spec2Model ----
(***************************************************************************)
(* The dependency-tracking watcher of praxys (createWatcher, watch.ts).    *)
(* The program is single-threaded and synchronous; nested calls are        *)
(* modelled with an explicit call stack of frames.  A callback body, the   *)
(* function given to batch or ignore, and the top-level caller are         *)
(* arbitrary user code: each chooses its next watcher operation freely.    *)
(*                                                                         *)
(* The plugin registry (index.ts), the path formation of the node proxy's  *)
(* traps, the node factory with its tables (node.ts, extend.ts) and the    *)
(* configuration chains (config.ts, target.ts) follow, each with a         *)
(* specification of its own in which the other components stay in their    *)
(* initial state.                                                          *)
(***************************************************************************)
EXTENDS Integers, Sequences, FiniteSets, TLC

\* ---- bounds -------------------------------------------------------------
NumPaths == 2          \* paths $.a, $.a.b, ... (each a prefix of the next)
NumCallbacks == 2      \* watch() calls over the life of the watcher
MaxDepth == 3          \* frames on the call stack: a pass that needs a
                       \* deeper frame for its next callback stops there,
                       \* and batch is called where its flush has room
MaxOps == 2            \* watcher operations one user function performs
MaxCascadeDepth == 6   \* frames on the call stack when the bodies are fixed
MaxIgnoreOps == 1      \* watcher operations the function given to ignore
                       \* performs
MaxUnderflow == 1      \* how far below zero batchLevel is followed
MaxPropLen == 3        \* characters of a member name given to a trap
MaxPathLen == 4        \* characters of the path of a node whose traps run
NumRaws == 2           \* raw state objects the user's code has
MaxJsonDepth == 3      \* nested toJSON calls before the call stack is full
MaxNodeOps == 5        \* operations the user's code makes on its nodes
MaxTrapOps == 4        \* operations of the set trap's behaviours

None == 0
NoPath == <<>>
Callbacks == 1..NumCallbacks

SegmentNames == <<"a", "b", "c", "d">>

RECURSIVE PathOf(_)
PathOf(n) == IF n = 0 THEN <<"$">>
             ELSE Append(PathOf(n - 1), SegmentNames[((n - 1) % 4) + 1])

Paths == {PathOf(n) : n \in 1..NumPaths}

IsPrefix(s, t) == Len(s) <= Len(t) /\ SubSeq(t, 1, Len(s)) = s

VARIABLES
  activeDependency,    \* state.tracking.activeDependency (None = null)
  pathDependencies,    \* Map path -> Set of callbacks (insertion ordered)
  callbackPaths,       \* Map callback -> Set of paths
  batchMode,           \* state.mode.batchMode
  ignoreMode,          \* state.mode.ignoreMode
  pendingPaths,        \* state.batch.pendingPaths (insertion ordered)
  batchLevel,          \* state.batch.batchLevel
  inProgress,          \* state.notification.inProgress
  unwatchedCallbacks,  \* state.notification.unwatchedCallbacks
  stack,               \* call stack, innermost frame last
  created,             \* runFn closures made by watch() so far
  stops,               \* callbacks whose watch() returned a stop function
  everRead,            \* history: paths each callback's body has read
  ev                   \* history: what the last step did

VARIABLES
  plugins,             \* index.ts: plugins, Map key -> plugin function
  registered,          \* history: the register calls that returned
  outcome,             \* history: the last registry call and its result
  trapPath,            \* node.ts: path of the node whose traps are called
  trapProp,            \* the member name the traps are called with
  reported             \* the path each trap gave to the watcher

VARIABLES
  heap,                \* the raw state objects: own enumerable properties
  proxies,             \* the proxies made: [state, path, root, config]
  sources,             \* node.ts: sources, raw object -> its proxy
  instances,           \* node.ts: instances
  watchers,            \* node.ts: watchers, root proxy -> its watcher
  methods,             \* raw objects on which watch, batch, ignore are defined
  extensions,          \* node.ts: extensions, proxy -> name -> literal value
  references,          \* node.ts: references, proxy -> names
  calls,               \* watcher calls made by the last operation
  last,                \* history: the last operation and what it returned
  written,             \* history: the value last assigned to proxy[prop]
  extOnly,             \* history: keys a target has from extend alone
  open,                \* watchers whose batch function is executing
  pend,                \* calls queued by those watchers
  ran                  \* callbacks run in the last operation: what they read

VARIABLES
  programs             \* the bodies of the callbacks, when they are fixed

VARIABLES
  chains,              \* config.ts: chains of a configuration, in order
  cursor,              \* the chain proxy last returned: pathArr and chain
  applied              \* history: the last processConfig call and its result

registryVars == <<plugins, registered, outcome>>

NoCursor == [arr |-> <<>>, chain |-> 0]

NotApplied == [path |-> <<>>, price |-> FALSE, result |-> <<>>, n |-> 0]

configVars == <<chains, cursor, applied>>

pathVars == <<trapPath, trapProp, reported>>

nodeVars == <<heap, proxies, sources, instances, watchers, methods,
              extensions, references, calls, last, written, extOnly, open,
              pend, ran>>

\* What the watcher's operations leave alone.
outside == <<registryVars, pathVars, nodeVars, configVars, programs>>

watcherState == <<activeDependency, pathDependencies, callbackPaths,
                  batchMode, ignoreMode, pendingPaths, batchLevel,
                  inProgress, unwatchedCallbacks>>

vars == <<activeDependency, pathDependencies, callbackPaths, batchMode,
          ignoreMode, pendingPaths, batchLevel, inProgress,
          unwatchedCallbacks, stack, created, stops, everRead, ev, programs>>

\* ---- insertion-ordered sets and maps -----------------------------------
Range(s) == {s[i] : i \in 1..Len(s)}

SetAdd(s, x) == IF x \in Range(s) THEN s ELSE Append(s, x)

SetDelete(s, x) == SelectSeq(s, LAMBDA y : y # x)

MapSet(m, k, v) == [x \in DOMAIN m \cup {k} |-> IF x = k THEN v ELSE m[x]]

MapDelete(m, k) == [x \in DOMAIN m \ {k} |-> m[x]]

EmptyMap == [x \in {} |-> 0]

\* ---- call-stack frames -------------------------------------------------
\* kind "run":    one execution of runFn; flag = it is watch()'s initial run
\* kind "notify": notify(path) running its callbacksToRun
\* kind "batch":  batch(fn) while fn executes; flag = isTopLevelBatch
\* kind "flush":  the same batch call inside processBatchNotifications
\* kind "ignore": ignore(fn) while fn executes; flag = previousIgnoreMode
\* left: operations the user function of the frame may still perform.
\* The other fields are history, read only by the properties:
\*   done   callbacks a pass has invoked so far
\*   paths  the paths a pass was collected for
\*   unw0   unwatchedCallbacks when a pass was collected
\*   unw    run: the callback was marked unwatched when it was invoked
\*   cnt    initial run: executions of cb begun since watch(cb) was called
\*   reads  run: the paths this execution of the callback has read
\*   writes batch: paths the batch function itself has written
\*   all0   batch: the callbacks, not stopped, that depended on every path
\*          when batch was called
\*   during batch: callbacks invoked by a pass while fn was executing
\*   after  batch: invocations of each callback from the start of the
\*          flush on (counted up to 2)
\*   entry  run, when the bodies are fixed: the watcher's state when the
\*          execution began
\* (writes and all0 are kept for a batch call made while no other batch
\* call is on the stack.)
Frame(k, c, p, run, f, n) ==
  [kind |-> k, cb |-> c, path |-> p, toRun |-> run, flag |-> f, left |-> n,
   done |-> <<>>, paths |-> {}, unw0 |-> {}, unw |-> FALSE, cnt |-> 0,
   reads |-> {}, writes |-> {}, all0 |-> {}, during |-> {}, after |-> <<>>,
   entry |-> <<>>]

NoFrame == Frame("none", None, NoPath, <<>>, FALSE, 0)

Depth == Len(stack)

\* The frames the call stack has room for.
DepthLimit == IF programs = <<>> THEN MaxDepth ELSE MaxCascadeDepth

Top == stack[Depth]

Pop == SubSeq(stack, 1, Depth - 1)

CodeKinds == {"run", "batch", "ignore"}

PassKinds == {"notify", "flush"}

\* User code is executing and is free to perform its next operation.
InCode == Depth > 0 => (Top.kind \in CodeKinds /\ Top.left > 0)

\* The stack after the running user function has used one operation.
Spend ==
  IF Depth = 0 THEN stack
  ELSE [stack EXCEPT ![Depth].left = @ - 1]

\* What the last step did, kept only for the steps the properties speak
\* of: a write ("write", with how notify disposed of it) and an exception
\* ("throw").
Event(o, p, h) == [op |-> o, path |-> p, how |-> h]

Other == Event("other", NoPath, "none")

InsideIgnore(s) == \E i \in 1..Len(s) : s[i].kind = "ignore"

BatchFrames(s) ==
  Cardinality({i \in 1..Len(s) : s[i].kind \in {"batch", "flush"}})

Occurrences(s, x) == Cardinality({i \in 1..Len(s) : s[i] = x})

\* ---- watch.ts helpers ----------------------------------------------------
\* Variant: a write also reaches the callbacks of every path that is a
\* prefix or an extension of the written one.
RECURSIVE PrefixDependents(_, _, _)
PrefixDependents(keys, path, acc) ==
  IF keys = {} THEN acc
  ELSE LET k == CHOOSE x \in keys : TRUE
           add == IF IsPrefix(k, path) \/ IsPrefix(path, k)
                  THEN pathDependencies[k] ELSE <<>>
           RECURSIVE Join(_, _)
           Join(a, b) == IF b = <<>> THEN a
                         ELSE Join(SetAdd(a, Head(b)), Tail(b))
       IN  PrefixDependents(keys \ {k}, path, Join(acc, add))

DependentsOfPrefix(path) ==
  PrefixDependents(DOMAIN pathDependencies, path, <<>>)

\* pathDependencies.get(path), or no callbacks when the key is absent
DependentsOf(path) ==
  IF path \in DOMAIN pathDependencies THEN pathDependencies[path] ELSE <<>>

\* Variant: the unwatched mark is not consulted.
RECURSIVE runCallbacksAll(_, _)
runCallbacksAll(callbacks, collectionSet) ==
  IF callbacks = <<>> THEN collectionSet
  ELSE runCallbacksAll(Tail(callbacks),
                       SetAdd(collectionSet, Head(callbacks)))

\* Variant: the collection is a list, a callback can be in it twice.
RECURSIVE runCallbacksList(_, _)
runCallbacksList(callbacks, collectionSet) ==
  IF callbacks = <<>> THEN collectionSet
  ELSE runCallbacksList(Tail(callbacks),
                        IF Head(callbacks) \notin unwatchedCallbacks
                        THEN Append(collectionSet, Head(callbacks))
                        ELSE collectionSet)

\* runCallbacks: add to collectionSet every callback not marked unwatched
RECURSIVE runCallbacks(_, _)
runCallbacks(callbacks, collectionSet) ==
  IF callbacks = <<>> THEN collectionSet
  ELSE runCallbacks(Tail(callbacks),
                    IF Head(callbacks) \notin unwatchedCallbacks
                    THEN SetAdd(collectionSet, Head(callbacks))
                    ELSE collectionSet)

\* addDependency: the two maps after recording the edge (path, callback)
addDependencyPaths(path, callback) ==
  MapSet(pathDependencies, path, SetAdd(DependentsOf(path), callback))

\* Variant: a callback's recorded paths are replaced by the path just read.
addDependencyCallbacksLatest(path, callback) ==
  MapSet(callbackPaths, callback, {path})

addDependencyCallbacks(path, callback) ==
  MapSet(callbackPaths, callback,
         (IF callback \in DOMAIN callbackPaths
          THEN callbackPaths[callback] ELSE {}) \cup {path})

\* Variant: the set of a path is kept when its last callback is removed.
removeDependencyDangling(m, path, callback) ==
  IF path \in DOMAIN m
  THEN MapSet(m, path, SetDelete(m[path], callback))
  ELSE m

\* removeDependency applied to map m
removeDependency(m, path, callback) ==
  IF path \in DOMAIN m
  THEN LET callbacks == SetDelete(m[path], callback)
       IN  IF Len(callbacks) = 0 THEN MapDelete(m, path)
           ELSE MapSet(m, path, callbacks)
  ELSE m

\* Variant: only one of the callback's paths is cleaned.
removeAllFirst(m, paths, callback) ==
  IF paths = {} THEN m
  ELSE removeDependency(m, CHOOSE q \in paths : TRUE, callback)

\* paths.forEach(path => removeDependency(path, runFn))
RECURSIVE removeAll(_, _, _)
removeAll(m, paths, callback) ==
  IF paths = {} THEN m
  ELSE LET p == CHOOSE q \in paths : TRUE
       IN  removeAll(removeDependency(m, p, callback), paths \ {p}, callback)

\* Variant: only the first pending path is looked up.
collectPendingFirst(pending, collectionSet) ==
  IF pending = <<>> THEN collectionSet
  ELSE runCallbacks(DependentsOf(Head(pending)), collectionSet)

\* processBatchNotifications: callbacks of all pending paths, each once
RECURSIVE collectPending(_, _)
collectPending(pending, collectionSet) ==
  IF pending = <<>> THEN collectionSet
  ELSE collectPending(Tail(pending),
                      runCallbacks(DependentsOf(Head(pending)), collectionSet))

\* The callbacks that have an edge to every path.
DependOnAll ==
  {c \in DOMAIN callbackPaths : callbackPaths[c] = Paths}

\* Variant: no recursion guard.
DispositionNoGuard(path) ==
  IF ignoreMode THEN "ignored"
  ELSE IF batchMode THEN "queued"
  ELSE "notified"

\* Variant: batch mode is tested before ignore mode.
DispositionBatchFirst(path) ==
  IF batchMode THEN "queued"
  ELSE IF ignoreMode THEN "ignored"
  ELSE IF path \in inProgress THEN "guarded"
  ELSE "notified"

\* notify's chain of early returns: what it does with a changed path
Disposition(path) ==
  IF ignoreMode THEN "ignored"
  ELSE IF batchMode THEN "queued"
  ELSE IF path \in inProgress THEN "guarded"
  ELSE "notified"

\* Variant: leaving ignore always switches ignore mode off.
RestoreIgnoreOff(frame) == FALSE

\* ignore's finally block: the value ignoreMode gets when fn has ended
RestoreIgnore(frame) == frame.flag

\* ---- history bookkeeping -------------------------------------------------
Bump(f, c) == [x \in Callbacks |-> IF x = c /\ f[x] < 2 THEN f[x] + 1 ELSE f[x]]

\* A pass invokes callback c: every pending watch(c) call and every batch
\* call on the stack counts it.
CountRun(s, c, byPass) ==
  [i \in 1..Len(s) |->
     IF s[i].kind = "run" /\ s[i].flag /\ s[i].cb = c
     THEN [s[i] EXCEPT !.cnt = @ + 1]
     ELSE IF byPass /\ s[i].kind = "batch"
     THEN [s[i] EXCEPT !.during = @ \cup {c}]
     ELSE IF byPass /\ s[i].kind = "flush"
     THEN [s[i] EXCEPT !.after = Bump(@, c)]
     ELSE s[i]]

\* The batch function on top of the stack writes path itself.
CountWrite(s, path) ==
  IF Len(s) > 0 /\ s[Len(s)].kind = "batch" /\ BatchFrames(s) = 1
  THEN [s EXCEPT ![Len(s)].writes = @ \cup {path}] ELSE s

\* What an execution of a callback finds: the watcher's state but for
\* activeDependency, which runFn sets.
Entered ==
  <<pathDependencies, callbackPaths, batchMode, ignoreMode, pendingPaths,
    batchLevel, inProgress, unwatchedCallbacks>>

\* runFn(): the callback body starts (activeDependency = runFn is set by
\* the action that uses this).
RunFn(s, c, initial) ==
  CountRun(Append(s, [Frame("run", c, NoPath, <<>>, initial, MaxOps)
                      EXCEPT !.unw = c \in unwatchedCallbacks,
                             !.entry = IF programs = <<>> THEN <<>>
                                       ELSE Entered]),
           c, ~initial)

\* The callback whose body is executing (innermost run frame), or None.
RECURSIVE RunningBody(_)
RunningBody(s) ==
  IF s = <<>> THEN None
  ELSE IF s[Len(s)].kind = "run" THEN s[Len(s)].cb
  ELSE RunningBody(SubSeq(s, 1, Len(s) - 1))

\* The running callback body (innermost run frame) reads path.
RECURSIVE CountRead(_, _)
CountRead(s, path) ==
  IF s = <<>> THEN s
  ELSE IF s[Len(s)].kind = "run"
  THEN [s EXCEPT ![Len(s)].reads = @ \cup {path}]
  ELSE Append(CountRead(SubSeq(s, 1, Len(s) - 1), path), s[Len(s)])

\* ---- the watcher ---------------------------------------------------------
Init ==
  /\ activeDependency = None
  /\ pathDependencies = EmptyMap
  /\ callbackPaths = EmptyMap
  /\ batchMode = FALSE
  /\ ignoreMode = FALSE
  /\ pendingPaths = <<>>
  /\ batchLevel = 0
  /\ inProgress = {}
  /\ unwatchedCallbacks = {}
  /\ stack = <<>>
  /\ created = 0
  /\ stops = {}
  /\ everRead = [c \in Callbacks |-> {}]
  /\ ev = Other

\* index.ts: the registry when the module has been loaded
RegistryInit ==
  /\ plugins = EmptyMap
  /\ registered = <<>>
  /\ outcome = [op |-> "none", key |-> "", fn |-> "none", result |-> "none"]

\* praxys(): the root node has path "$"; no trap has been called
PathInit ==
  /\ trapPath = <<"$">>
  /\ trapProp = <<>>
  /\ reported = EmptyMap

\* node.ts: the tables when the module has been loaded; the user's state
\* objects are empty
NodeInit ==
  /\ heap = [r \in 1..NumRaws |-> EmptyMap]
  /\ proxies = <<>>
  /\ sources = EmptyMap
  /\ instances = {}
  /\ watchers = EmptyMap
  /\ methods = {}
  /\ extensions = EmptyMap
  /\ references = EmptyMap
  /\ calls = <<>>
  /\ last = [op |-> "none", node |-> None, prop |-> <<>>,
             value |-> [t |-> "undefined", v |-> 0],
             ret |-> [t |-> "undefined", v |-> 0], n |-> 0]
  /\ written = EmptyMap
  /\ extOnly = {}
  /\ open = {}
  /\ pend = <<>>
  /\ ran = <<>>

\* Every component as it is before the program's first call.
\* config(): no chain yet
\* No fixed bodies: the callbacks are arbitrary user code.
ProgramInit == programs = <<>>

ConfigInit ==
  /\ chains = <<>>
  /\ cursor = NoCursor
  /\ applied = NotApplied

Loaded ==
  Init /\ RegistryInit /\ PathInit /\ NodeInit /\ ConfigInit /\ ProgramInit

\* onGet(path)
OnGet(path) ==
  /\ InCode
  /\ IF activeDependency # None
     THEN /\ pathDependencies' = addDependencyPaths(path, activeDependency)
          /\ callbackPaths' = addDependencyCallbacks(path, activeDependency)
     ELSE UNCHANGED <<pathDependencies, callbackPaths>>
  /\ everRead' = IF RunningBody(stack) # None
                 THEN [everRead EXCEPT ![RunningBody(stack)] = @ \cup {path}]
                 ELSE everRead
  /\ stack' = CountRead(Spend, path)
  /\ ev' = Other
  /\ UNCHANGED <<activeDependency, batchMode, ignoreMode, pendingPaths,
                 batchLevel, inProgress, unwatchedCallbacks, created,
                 stops>>
  /\ UNCHANGED outside

\* notify(path), reached from onSet and onDelete
notify(path) ==
  LET how == Disposition(path)
      callbacksToRun == runCallbacks(DependentsOf(path), <<>>)
      caller == CountWrite(Spend, path)
  IN
  /\ InCode
  /\ ev' = Event("write", path, how)
  /\ pendingPaths' = IF how = "queued" THEN SetAdd(pendingPaths, path)
                     ELSE pendingPaths
  /\ IF how = "notified" /\ callbacksToRun # <<>>
     THEN /\ Depth + 1 <= DepthLimit
          /\ inProgress' = inProgress \cup {path}
          /\ stack' =
               Append(caller,
                      [Frame("notify", None, path, callbacksToRun, FALSE, 0)
                       EXCEPT !.paths = {path}, !.unw0 = unwatchedCallbacks])
     ELSE /\ UNCHANGED inProgress
          /\ stack' = caller
  /\ UNCHANGED <<activeDependency, pathDependencies, callbackPaths,
                 batchMode, ignoreMode, batchLevel, unwatchedCallbacks,
                 created, stops, everRead>>
  /\ UNCHANGED outside

\* onSet(path)
OnSet(path) == notify(path)

\* onDelete(path)
OnDelete(path) == notify(path)

\* A notification pass (notify, or the flush of a batch) takes its next
\* step: callbacksToRun.forEach(fn => fn()), then its cleanup.
PassStep ==
  /\ Depth > 0
  /\ Top.kind \in PassKinds
  /\ ev' = Other
  /\ IF Top.toRun # <<>>
     THEN LET c == Head(Top.toRun)
          IN  /\ Depth + 1 <= DepthLimit
              /\ stack' = RunFn([stack EXCEPT ![Depth].toRun = Tail(@),
                                              ![Depth].done = Append(@, c)],
                                c, FALSE)
              /\ activeDependency' = c
              /\ UNCHANGED <<pendingPaths, inProgress>>
     ELSE /\ stack' = Pop
          /\ UNCHANGED activeDependency
          /\ IF Top.kind = "notify"
             THEN inProgress' = inProgress \ {Top.path}
                  /\ UNCHANGED pendingPaths
             ELSE pendingPaths' = <<>> /\ UNCHANGED inProgress
  /\ UNCHANGED <<pathDependencies, callbackPaths, batchMode, ignoreMode,
                 batchLevel, unwatchedCallbacks, created, stops, everRead>>
  /\ UNCHANGED outside

\* watch(callback): a new runFn, and its initial run
Watch ==
  /\ InCode
  /\ created < NumCallbacks
  /\ Depth + 1 <= DepthLimit
  /\ created' = created + 1
  /\ activeDependency' = created + 1
  /\ stack' = RunFn(Spend, created + 1, TRUE)
  /\ ev' = Other
  /\ UNCHANGED <<pathDependencies, callbackPaths, batchMode, ignoreMode,
                 pendingPaths, batchLevel, inProgress, unwatchedCallbacks,
                 stops, everRead>>
  /\ UNCHANGED outside

\* the stop function returned by watch
Stop(c) ==
  /\ InCode
  /\ c \in stops
  /\ unwatchedCallbacks' = unwatchedCallbacks \cup {c}
  /\ IF c \in DOMAIN callbackPaths
     THEN /\ pathDependencies' =
                removeAll(pathDependencies, callbackPaths[c], c)
          /\ callbackPaths' = MapDelete(callbackPaths, c)
     ELSE UNCHANGED <<pathDependencies, callbackPaths>>
  /\ stack' = Spend
  /\ ev' = Other
  /\ UNCHANGED <<activeDependency, batchMode, ignoreMode, pendingPaths,
                 batchLevel, inProgress, created, stops, everRead>>
  /\ UNCHANGED outside

\* ignore(fn): entry
Ignore ==
  /\ InCode
  /\ Depth + 1 <= DepthLimit
  /\ stack' = Append(Spend, Frame("ignore", None, NoPath, <<>>, ignoreMode,
                                  MaxIgnoreOps))
  /\ ignoreMode' = TRUE
  /\ ev' = Other
  /\ UNCHANGED <<activeDependency, pathDependencies, callbackPaths,
                 batchMode, pendingPaths, batchLevel, inProgress,
                 unwatchedCallbacks, created, stops, everRead>>
  /\ UNCHANGED outside

\* batch(fn): entry
Batch ==
  /\ InCode
  /\ Depth + 2 <= DepthLimit
  /\ batchLevel' = batchLevel + 1
  /\ batchMode' = IF batchLevel' = 1 THEN TRUE ELSE batchMode
  /\ stack' = Append(Spend,
       [Frame("batch", None, NoPath, <<>>, batchLevel' = 1, MaxOps)
        EXCEPT !.all0 = IF BatchFrames(stack) = 0
                        THEN DependOnAll \ unwatchedCallbacks ELSE {},
               !.after = [c \in Callbacks |-> 0]])
  /\ ev' = Other
  /\ UNCHANGED <<activeDependency, pathDependencies, callbackPaths,
                 ignoreMode, pendingPaths, inProgress, unwatchedCallbacks,
                 created, stops, everRead>>
  /\ UNCHANGED outside

\* The user function of the innermost frame returns normally.
\*   run:    finally { activeDependency = null }; the initial run makes
\*           watch return the stop function
\*   ignore: finally { ignoreMode = previousIgnoreMode }
\*   batch:  batchLevel--; the top-level batch goes on to
\*           processBatchNotifications
Return ==
  LET callbacksToRun == collectPending(pendingPaths, <<>>)
      flushing == Top.kind = "batch" /\ Top.flag /\ callbacksToRun # <<>>
  IN
  /\ Depth > 0
  /\ Top.kind \in CodeKinds
  /\ ev' = Other
  /\ activeDependency' = IF Top.kind = "run" THEN None ELSE activeDependency
  /\ stops' = IF Top.kind = "run" /\ Top.flag
              THEN stops \cup {Top.cb} ELSE stops
  /\ ignoreMode' = IF Top.kind = "ignore" THEN RestoreIgnore(Top)
                   ELSE ignoreMode
  /\ batchLevel' = IF Top.kind = "batch" THEN batchLevel - 1 ELSE batchLevel
  /\ batchMode' = IF Top.kind = "batch" /\ Top.flag THEN FALSE ELSE batchMode
  /\ pendingPaths' = IF Top.kind = "batch" /\ Top.flag /\ ~flushing
                     THEN <<>> ELSE pendingPaths
  /\ stack' = IF flushing
              THEN [stack EXCEPT ![Depth] =
                      [@ EXCEPT !.kind = "flush",
                                !.toRun = callbacksToRun,
                                !.paths = Range(pendingPaths),
                                !.unw0 = unwatchedCallbacks]]
              ELSE Pop
  /\ UNCHANGED <<pathDependencies, callbackPaths, inProgress,
                 unwatchedCallbacks, created, everRead>>
  /\ UNCHANGED outside

\* Variant: notify has no finally block.
CleanupKeepsPath(f, w) ==
  [activeDependency |-> IF f.kind = "run" THEN None ELSE w.activeDependency,
   inProgress |-> w.inProgress,
   ignoreMode |-> IF f.kind = "ignore" THEN RestoreIgnore(f)
                  ELSE w.ignoreMode,
   batchLevel |-> IF f.kind \in {"batch", "flush"} THEN w.batchLevel - 1
                  ELSE w.batchLevel,
   batchMode |-> IF f.kind \in {"batch", "flush"} /\ f.flag THEN FALSE
                 ELSE w.batchMode,
   pendingPaths |-> IF f.kind \in {"batch", "flush"} /\ f.flag THEN <<>>
                    ELSE w.pendingPaths]

\* The watcher state after an exception has left frame f, whose finally or
\* catch block has run on the state w:
\*   run:    finally { activeDependency = null }
\*   notify: finally { inProgress.delete(path) }
\*   ignore: finally { ignoreMode = previousIgnoreMode }
\*   batch (fn or flush): catch { batchLevel--; if (isTopLevelBatch)
\*           { batchMode = false; pendingPaths.clear() }; throw e }
Cleanup(f, w) ==
  [activeDependency |-> IF f.kind = "run" THEN None ELSE w.activeDependency,
   inProgress |-> IF f.kind = "notify" THEN w.inProgress \ {f.path}
                  ELSE w.inProgress,
   ignoreMode |-> IF f.kind = "ignore" THEN RestoreIgnore(f)
                  ELSE w.ignoreMode,
   batchLevel |-> IF f.kind \in {"batch", "flush"} THEN w.batchLevel - 1
                  ELSE w.batchLevel,
   batchMode |-> IF f.kind \in {"batch", "flush"} /\ f.flag THEN FALSE
                 ELSE w.batchMode,
   pendingPaths |-> IF f.kind \in {"batch", "flush"} /\ f.flag THEN <<>>
                    ELSE w.pendingPaths]

\* The exception leaves the k innermost frames of s, innermost first.
RECURSIVE Unwind(_, _, _)
Unwind(s, k, w) ==
  IF k = 0 THEN w
  ELSE Unwind(SubSeq(s, 1, Len(s) - 1), k - 1, Cleanup(s[Len(s)], w))

\* The running user function throws. The exception propagates through
\* every watcher call on the stack, each running its finally or catch
\* block, and reaches the top-level caller, which handles it.
Throw ==
  LET w == Unwind(stack, Depth,
                  [activeDependency |-> activeDependency,
                   inProgress |-> inProgress, ignoreMode |-> ignoreMode,
                   batchLevel |-> batchLevel, batchMode |-> batchMode,
                   pendingPaths |-> pendingPaths])
  IN
  /\ InCode
  /\ Depth > 0
  /\ w.batchLevel >= 0 - MaxUnderflow
  /\ stack' = <<>>
  /\ activeDependency' = w.activeDependency
  /\ inProgress' = w.inProgress
  /\ ignoreMode' = w.ignoreMode
  /\ batchLevel' = w.batchLevel
  /\ batchMode' = w.batchMode
  /\ pendingPaths' = w.pendingPaths
  /\ ev' = Event("throw", NoPath, "none")
  /\ UNCHANGED <<pathDependencies, callbackPaths, unwatchedCallbacks,
                 created, stops, everRead>>
  /\ UNCHANGED outside

Next ==
  \/ \E path \in Paths : OnGet(path)
  \/ \E path \in Paths : OnSet(path)
  \/ \E path \in Paths : OnDelete(path)
  \/ PassStep
  \/ Watch
  \/ \E c \in Callbacks : Stop(c)
  \/ Ignore
  \/ Batch
  \/ Return
  \/ Throw

Spec == Loaded /\ [][Next]_vars

TypeOK ==
  /\ activeDependency \in Callbacks \cup {None}
  /\ DOMAIN pathDependencies \subseteq Paths
  /\ DOMAIN callbackPaths \subseteq Callbacks
  /\ batchMode \in BOOLEAN
  /\ ignoreMode \in BOOLEAN
  /\ Range(pendingPaths) \subseteq Paths
  /\ batchLevel \in (0 - MaxUnderflow - 1)..MaxDepth
  /\ inProgress \subseteq Paths
  /\ unwatchedCallbacks \subseteq Callbacks
  /\ Depth <= MaxDepth
  /\ created \in 0..NumCallbacks
  /\ stops \subseteq 1..created

\* ---- the plugin registry (index.ts) --------------------------------------
PluginKeys == {"", "extend", "target", "log"}

PluginFunctions == {"extendFn", "targetFn", "logFn"}

\* Variant: a key that is already registered is registered again.
registerResultAgain(key) ==
  IF key = "" THEN "Invalid plugin key" ELSE "returned"

\* register: which of its three ends a call takes
registerResult(key) ==
  IF key = "" THEN "Invalid plugin key"
  ELSE IF key \in DOMAIN plugins THEN "already registered"
  ELSE "returned"

\* register(key, pluginFn)
Register(key, pluginFn) ==
  LET result == registerResult(key)
  IN  /\ outcome' = [op |-> "register", key |-> key, fn |-> pluginFn,
                     result |-> result]
      /\ IF result = "returned"
         THEN /\ plugins' = MapSet(plugins, key, pluginFn)
              /\ registered' = Append(registered, <<key, pluginFn>>)
         ELSE UNCHANGED <<plugins, registered>>
      /\ UNCHANGED <<vars, pathVars, nodeVars, configVars>>

\* resolve(key): plugins.get(key)
Resolve(key) ==
  /\ outcome' = [op |-> "resolve", key |-> key, fn |-> "none",
                 result |-> IF key \in DOMAIN plugins THEN plugins[key]
                            ELSE "undefined"]
  /\ UNCHANGED <<plugins, registered, vars, pathVars, nodeVars, configVars>>

RegistryNext ==
  \/ \E key \in PluginKeys, pluginFn \in PluginFunctions :
       Register(key, pluginFn)
  \/ \E key \in PluginKeys : Resolve(key)

RegistrySpec == Loaded /\ [][RegistryNext]_registryVars

\* ---- path formation in the node proxy's traps (node.ts) -----------------
\* Member names and paths are sequences of characters.
Chars == {"0", "1", "-", ".", "e", "x", "a", " "}

Props == UNION {[1..n -> Chars] : n \in 0..MaxPropLen}

Digits == {"0", "1", "2", "3", "4", "5", "6", "7", "8", "9"}

HexDigits == Digits \cup {"a", "b", "c", "d", "e", "f",
                          "A", "B", "C", "D", "E", "F"}

WhiteSpace == {" "}

\* Number(prop) of a string is NaN unless the string, without the white
\* space around it, is empty or a StrNumericLiteral of ECMAScript.
RECURSIVE TrimStart(_)
TrimStart(s) ==
  IF s # <<>> /\ Head(s) \in WhiteSpace THEN TrimStart(Tail(s)) ELSE s

RECURSIVE TrimEnd(_)
TrimEnd(s) ==
  IF s # <<>> /\ s[Len(s)] \in WhiteSpace
  THEN TrimEnd(SubSeq(s, 1, Len(s) - 1)) ELSE s

AllIn(s, set) == \A i \in 1..Len(s) : s[i] \in set

DecimalDigits(s) == s # <<>> /\ AllIn(s, Digits)

SignedInteger(s) ==
  \/ DecimalDigits(s)
  \/ s # <<>> /\ s[1] \in {"+", "-"} /\ DecimalDigits(Tail(s))

ExponentPart(s) == s # <<>> /\ s[1] \in {"e", "E"} /\ SignedInteger(Tail(s))

\* DecimalDigits . DecimalDigits(opt) | . DecimalDigits | DecimalDigits
DecimalMantissa(m) ==
  \/ DecimalDigits(m)
  \/ \E d \in 1..Len(m) :
       /\ m[d] = "."
       /\ LET int == SubSeq(m, 1, d - 1)
              frac == SubSeq(m, d + 1, Len(m))
          IN  \/ DecimalDigits(int) /\ (frac = <<>> \/ DecimalDigits(frac))
              \/ int = <<>> /\ DecimalDigits(frac)

StrUnsignedDecimalLiteral(s) ==
  \/ s = <<"I", "n", "f", "i", "n", "i", "t", "y">>
  \/ \E k \in 1..Len(s) :
       /\ DecimalMantissa(SubSeq(s, 1, k))
       /\ k = Len(s) \/ ExponentPart(SubSeq(s, k + 1, Len(s)))

StrDecimalLiteral(s) ==
  \/ StrUnsignedDecimalLiteral(s)
  \/ s # <<>> /\ s[1] \in {"+", "-"} /\ StrUnsignedDecimalLiteral(Tail(s))

NonDecimalIntegerLiteral(s) ==
  /\ Len(s) >= 3
  /\ s[1] = "0"
  /\ LET rest == SubSeq(s, 3, Len(s))
     IN  \/ s[2] \in {"x", "X"} /\ AllIn(rest, HexDigits)
         \/ s[2] \in {"o", "O"} /\ AllIn(rest, {"0", "1", "2", "3", "4", "5", "6", "7"})
         \/ s[2] \in {"b", "B"} /\ AllIn(rest, {"0", "1"})

StringNumericLiteral(s) ==
  LET t == TrimEnd(TrimStart(s))
  IN  t = <<>> \/ StrDecimalLiteral(t) \/ NonDecimalIntegerLiteral(t)

\* isNaN(Number(prop))
NumberIsNaN(prop) == ~StringNumericLiteral(prop)

\* Variant: only a run of digits is written as an index.
nextPropIndex(prop) ==
  IF DecimalDigits(prop) THEN <<"[">> \o prop \o <<"]">>
  ELSE <<".">> \o prop

\* nextProp, computed by the same expression in the three traps
nextProp(prop) ==
  IF ~NumberIsNaN(prop) THEN <<"[">> \o prop \o <<"]">>
  ELSE <<".">> \o prop

\* get trap: nextPath
nextPath(path, prop) == path \o nextProp(prop)

\* set trap: propPath
setPropPath(path, prop) == path \o nextProp(prop)

\* deleteProperty trap: propPath
deletePropPath(path, prop) == path \o nextProp(prop)

\* Member names of object-valued members, whose nodes the get trap makes.
ChildProps == {<<"a">>, <<"0">>}

\* The caller names a member of the node at trapPath: node[prop].
Member(prop) ==
  /\ trapProp' = prop
  /\ reported' = EmptyMap
  /\ UNCHANGED <<trapPath, vars, registryVars, nodeVars, configVars>>

\* get trap on the node at trapPath: watcher.onGet(nextPath)
GetPath ==
  /\ reported' = MapSet(reported, "get", nextPath(trapPath, trapProp))
  /\ UNCHANGED <<trapPath, trapProp, vars, registryVars, nodeVars, configVars>>

\* set trap: watcher.onSet(propPath)
SetPath ==
  /\ reported' = MapSet(reported, "set", setPropPath(trapPath, trapProp))
  /\ UNCHANGED <<trapPath, trapProp, vars, registryVars, nodeVars, configVars>>

\* deleteProperty trap: watcher.onDelete(propPath)
DeletePath ==
  /\ reported' = MapSet(reported, "delete",
                        deletePropPath(trapPath, trapProp))
  /\ UNCHANGED <<trapPath, trapProp, vars, registryVars, nodeVars, configVars>>

\* get trap: the node of an object-valued member is made with
\* path: nextPath, and its traps are called from then on.
ChildNode ==
  /\ trapProp \in ChildProps
  /\ Len(nextPath(trapPath, trapProp)) <= MaxPathLen
  /\ trapPath' = nextPath(trapPath, trapProp)
  /\ trapProp' = <<>>
  /\ reported' = EmptyMap
  /\ UNCHANGED <<vars, registryVars, nodeVars, configVars>>

PathNext ==
  \/ \E prop \in Props : Member(prop)
  \/ GetPath
  \/ SetPath
  \/ DeletePath
  \/ ChildNode

PathSpec == Loaded /\ [][PathNext]_pathVars

\* ---- the node proxy factory (node.ts) -------------------------------------
\* Raw state objects are numbered; a proxy is its position in proxies.
Raws == 1..NumRaws

\* Member names: "a" and "b" hold the user's data; an extension function
\* returns the key "aRef" (which makes "a" a reference) or "b"; "watch"
\* stands for the three methods of a root, which are installed together.
NameA == <<"a">>

NameB == <<"b">>

KeyARef == <<"a", "R", "e", "f">>

NameWatch == <<"w", "a", "t", "c", "h">>

\* Names an extension function defines with accessors: "g" with a getter
\* only, "s" with a getter and a setter over a variable of its own.
NameG == <<"g">>

NameIndex == <<"0">>

NameS == <<"s">>

\* A property key that is a symbol and not a string.
SymbolKey == <<"Symbol(k)">>

\* for (const prop in state) and Object.entries(state): the enumerable own
\* keys, here always visited in this order.
EnumOrder == <<NameA, NameB, KeyARef>>

ExtendKeys == {KeyARef, NameB}

\* A configuration: no chain, or one chain for the path at with one extend
\* plugin whose function returns { [key]: ExtensionValue }.
NoConfig == [at |-> <<>>, key |-> <<>>]

ChildPath == <<"$", ".", "a">>

Configs ==
  {NoConfig, [at |-> <<"$">>, key |-> KeyARef],
   [at |-> ChildPath, key |-> NameB]}

\* processConfig: the keys of the chains whose path is exactly the node's
ConfigKeys(config, path) ==
  IF config.at = path THEN <<config.key>> ELSE <<>>

\* JavaScript values
Prim(n) == [t |-> "prim", v |-> n]

RawRef(r) == [t |-> "raw", v |-> r]

NodeRef(p) == [t |-> "node", v |-> p]

Undefined == [t |-> "undefined", v |-> 0]

Function == [t |-> "function", v |-> 0]

UserPrims == {Prim(1), Prim(2)}

\* The literal value of the properties an extension function returns.
ExtensionValue == Prim(0)

\* A descriptor with get only, and one with get and set whose variable
\* holds Prim(n).
GetterOnly == [t |-> "getter", v |-> 0]

Accessor(n) == [t |-> "accessor", v |-> n]

\* Object.getOwnPropertyDescriptors of what the extension function returns
\* for key: { get g() {...} }, { get s() {...}, set s(x) {...} }, or
\* { [key]: ExtensionValue }
Descriptor(key) ==
  IF key = NameG THEN GetterOnly
  ELSE IF key = NameS THEN Accessor(0)
  ELSE ExtensionValue

\* 'value' in descriptor
HasValue(descriptor) == descriptor.t \notin {"getter", "accessor"}

\* The tracking tables and the raw objects, as one value.
World ==
  [heap |-> heap, proxies |-> proxies, sources |-> sources,
   instances |-> instances, watchers |-> watchers, methods |-> methods,
   extensions |-> extensions, references |-> references,
   extOnly |-> extOnly, calls |-> <<>>]

\* key.endsWith('Ref')
isRef(key) ==
  Len(key) >= 3 /\ SubSeq(key, Len(key) - 2, Len(key)) = <<"R", "e", "f">>

\* isRef ? key.slice(0, -3) : key
ExtensionName(key) == IF isRef(key) THEN SubSeq(key, 1, Len(key) - 3) ELSE key

\* root || proxy
RootOf(w, p) == IF w.proxies[p].root = None THEN p ELSE w.proxies[p].root

\* The value the get trap resolves for proxy[prop]: the extension's literal
\* value if there is one, else target[prop].
Resolved(w, p, prop) ==
  LET raw == w.proxies[p].state
      target == w.heap[raw]
  IN  IF prop \in DOMAIN w.extensions[p]
      THEN LET descriptor == w.extensions[p][prop]
           IN  IF descriptor.t = "getter" THEN ExtensionValue
               ELSE IF descriptor.t = "accessor" THEN Prim(descriptor.v)
               ELSE descriptor
      ELSE IF prop \in DOMAIN target THEN target[prop]
      ELSE IF prop = NameWatch /\ raw \in w.methods THEN Function
      ELSE Undefined

\* Variant: reference names are not consulted.
SkipsWatcherNever(w, p, prop) == FALSE

\* refs && refs.has(prop)
SkipsWatcher(w, p, prop) == prop \in w.references[p]

\* Variant: every node is set up as a root.
IsRootCreationAlways(root) == TRUE

\* if (!root)
IsRootCreation(root) == root = None

\* sources.has(state)
KnownSource(w, state) == state.t = "raw" /\ state.v \in DOMAIN w.sources

\* Variant: the proxy made first is returned for every known object.
sourcesGetFirst(w, raw) == 1

\* Variant: the proxy made last is returned for every known object.
sourcesGetLast(w, raw) == Len(w.proxies)

\* sources.get(state)
sourcesGet(w, raw) == w.sources[raw]

\* watcher.onGet / onSet / onDelete as called by a trap of proxy p. at is
\* the state as a callback run by the call finds it: seen is the value it
\* gets from proxy[prop] (before the get trap wraps it), has tells
\* whether the target has the key.
Call(w, at, p, op, path, prop) ==
  LET r == RootOf(w, p)
  IN  IF r \in DOMAIN w.watchers
      THEN [w EXCEPT !.calls =
              Append(@, [watcher |-> w.watchers[r], op |-> op, path |-> path,
                         node |-> p, prop |-> prop,
                         seen |-> Resolved(at, p, prop),
                         has |-> prop \in DOMAIN at.heap[at.proxies[p].state]])]
      ELSE w

\* extend({opts, node}) where opts() returns { [key]: ExtensionValue }
extend(w, p, key) ==
  LET raw == w.proxies[p].state
      name == ExtensionName(key)
  IN  [w EXCEPT
         !.references = IF isRef(key)
                        THEN MapSet(@, p, w.references[p] \cup {name})
                        ELSE @,
         !.extensions = MapSet(@, p, MapSet(w.extensions[p], name,
                                            Descriptor(key))),
         \* Object.defineProperty(node, key, descriptor), for a descriptor
         \* with a value: the proxy has no defineProperty trap, so the
         \* property is defined on the target
         !.heap = IF HasValue(Descriptor(key))
                  THEN MapSet(@, raw, MapSet(w.heap[raw], key,
                                             ExtensionValue))
                  ELSE @,
         !.extOnly = IF key \in DOMAIN w.heap[raw] \/ ~HasValue(Descriptor(key))
                     THEN @
                     ELSE @ \cup {<<raw, key>>}]

\* processConfig({config, path, node: proxy}): extend for each plugin of
\* the chains that apply
RECURSIVE processConfig(_, _, _)
processConfig(w, p, keys) ==
  IF keys = <<>> THEN w
  ELSE processConfig(extend(w, p, Head(keys)), p, Tail(keys))

RECURSIVE node(_, _, _, _, _)
RECURSIVE GetTrap(_, _, _)
RECURSIVE Walk(_, _, _)

\* node({state, root, path}): the proxy of state, made if there is none
node(w, state, root, path, config) ==
  IF state.t = "node" /\ state.v \in w.instances
  THEN [w |-> w, ret |-> state]
  ELSE IF KnownSource(w, state)
  THEN [w |-> w, ret |-> NodeRef(sourcesGet(w, state.v))]
  ELSE IF state.t # "raw"
  THEN [w |-> w, ret |-> state]
  ELSE
    LET raw == state.v
        p == Len(w.proxies) + 1
        made == [w EXCEPT
                   !.proxies = Append(@, [state |-> raw, path |-> path,
                                          root |-> root, config |-> config]),
                   !.watchers = IF IsRootCreation(root)
                                THEN MapSet(@, p, Cardinality(DOMAIN @) + 1)
                                ELSE @,
                   !.methods = IF IsRootCreation(root) THEN @ \cup {raw}
                               ELSE @,
                   !.instances = @ \cup {p},
                   !.sources = MapSet(@, raw, p),
                   !.references = MapSet(@, p, {}),
                   !.extensions = MapSet(@, p, EmptyMap)]
        extended == processConfig(made, p, ConfigKeys(config, path))
        keys == SelectSeq(EnumOrder,
                          LAMBDA k : k \in DOMAIN extended.heap[raw])
    IN  [w |-> Walk(extended, p, keys), ret |-> NodeRef(p)]

\* get trap of proxy p for a string prop
GetTrap(w, p, prop) ==
  LET value == Resolved(w, p, prop)
  IN  IF value.t = "function" \/ SkipsWatcher(w, p, prop)
      THEN [w |-> w, ret |-> value]
      ELSE LET path == nextPath(w.proxies[p].path, prop)
           IN  node(Call(w, w, p, "onGet", path, prop), value,
                    RootOf(w, p), path, w.proxies[p].config)

\* for (const prop in state) { proxy[prop]; }
Walk(w, p, keys) ==
  IF keys = <<>> THEN w
  ELSE Walk(GetTrap(w, p, Head(keys)).w, p, Tail(keys))

\* Variant: the watcher is called before the value is stored.
AtNotificationBefore(before, after) == before

\* The set and deleteProperty traps call the watcher after the change.
AtNotification(before, after) == after

\* target[prop] = value fails: watch, batch and ignore of a root are
\* defined on the target as not writable and not configurable
Rejects(w, p, prop) ==
  prop = NameWatch /\ w.proxies[p].state \in w.methods

\* Variant: a write to a name whose descriptor has neither a setter nor a
\* value goes to the target.
StoreOnTarget(w, p, prop, value) ==
  LET raw == w.proxies[p].state
      onTarget == [w EXCEPT !.heap =
                     MapSet(@, raw, MapSet(w.heap[raw], prop, value))]
  IN  IF prop \in DOMAIN w.extensions[p]
      THEN LET descriptor == w.extensions[p][prop]
           IN  IF descriptor.t = "accessor"
               THEN [w EXCEPT !.extensions =
                       MapSet(@, p, MapSet(w.extensions[p], prop,
                                           Accessor(value.v)))]
               ELSE IF HasValue(descriptor)
               THEN [w EXCEPT !.extensions =
                       MapSet(@, p, MapSet(w.extensions[p], prop, value))]
               ELSE onTarget
      ELSE onTarget

\* set trap, the store: the descriptor's setter, else the descriptor's
\* value, and the target only for a name that has no descriptor
Store(w, p, prop, value) ==
  LET raw == w.proxies[p].state
  IN  IF prop \in DOMAIN w.extensions[p]
      THEN LET descriptor == w.extensions[p][prop]
           IN  IF descriptor.t = "accessor"
               THEN [w EXCEPT !.extensions =
                       MapSet(@, p, MapSet(w.extensions[p], prop,
                                           Accessor(value.v)))]
               ELSE IF HasValue(descriptor)
               THEN [w EXCEPT !.extensions =
                       MapSet(@, p, MapSet(w.extensions[p], prop, value))]
               ELSE w
      ELSE [w EXCEPT !.heap =
              MapSet(@, raw, MapSet(w.heap[raw], prop, value))]

\* set trap of proxy p: how the call ends. Number(prop) throws a
\* TypeError for a symbol.
SetOutcome(w, p, prop) ==
  IF prop \notin DOMAIN w.extensions[p] /\ Rejects(w, p, prop)
  THEN "TypeError"
  ELSE IF SkipsWatcher(w, p, prop) THEN "true"
  ELSE IF prop = SymbolKey THEN "TypeError"
  ELSE "true"

\* set trap of proxy p
SetTrap(w, p, prop, value) ==
  LET stored == Store(w, p, prop, value)
  IN  IF prop \notin DOMAIN w.extensions[p] /\ Rejects(w, p, prop) THEN w
      ELSE IF SkipsWatcher(w, p, prop) \/ prop = SymbolKey THEN stored
      ELSE Call(stored, AtNotification(w, stored), p, "onSet",
                setPropPath(w.proxies[p].path, prop), prop)

\* Variant: the reference set is left as it was.
DeleteTrapKeepsMark(w, p, prop) ==
  LET raw == w.proxies[p].state
      deleted == [w EXCEPT !.heap =
                    MapSet(@, raw, MapDelete(w.heap[raw], prop))]
  IN  Call(deleted, AtNotification(w, deleted), p, "onDelete",
           deletePropPath(w.proxies[p].path, prop), prop)

\* deleteProperty trap of proxy p
DeleteTrap(w, p, prop) ==
  LET raw == w.proxies[p].state
      deleted == [w EXCEPT !.heap =
                    MapSet(@, raw, MapDelete(w.heap[raw], prop))]
      called == Call(deleted, AtNotification(w, deleted), p, "onDelete",
                     deletePropPath(w.proxies[p].path, prop), prop)
  IN  [called EXCEPT !.references =
         MapSet(@, p, w.references[p] \ {prop})]

\* The state object a value stands for, None for a primitive.
ObjectOf(w, value) ==
  IF value.t = "raw" THEN value.v
  ELSE IF value.t = "node" THEN w.proxies[value.v].state
  ELSE None

JsonError == [t |-> "error", props |-> EmptyMap]

\* toJSON of the node of raw: the enumerable entries of the raw state, an
\* object value through its node's toJSON or a JSON round trip. depth is
\* what is left of the call stack.
RECURSIVE toJSON(_, _, _)
toJSON(w, raw, depth) ==
  IF depth = 0 THEN JsonError
  ELSE
    LET entry(k) ==
          LET value == w.heap[raw][k]
          IN  IF ObjectOf(w, value) # None
              THEN toJSON(w, ObjectOf(w, value), depth - 1)
              ELSE [t |-> "value", props |-> value]
        result == [k \in DOMAIN w.heap[raw] |-> entry(k)]
    IN  IF \E k \in DOMAIN result : result[k].t = "error" THEN JsonError
        ELSE [t |-> "object", props |-> result]

\* What an operation leaves in the tables.
Install(w) ==
  /\ heap' = w.heap
  /\ proxies' = w.proxies
  /\ sources' = w.sources
  /\ instances' = w.instances
  /\ watchers' = w.watchers
  /\ methods' = w.methods
  /\ extensions' = w.extensions
  /\ references' = w.references
  /\ extOnly' = w.extOnly
  /\ calls' = w.calls

\* The watcher's part, as far as the traps are concerned: a call made while
\* the watcher's batch function executes is queued (once per path) and its
\* callbacks run when the batch is flushed; otherwise they run in the call.
Deliver(cs) ==
  LET now == SelectSeq(cs, LAMBDA c : c.op # "onGet" /\ c.watcher \notin open)
      later == SelectSeq(cs, LAMBDA c : c.op # "onGet" /\ c.watcher \in open)
      RECURSIVE Queue(_, _)
      Queue(q, cs2) ==
        IF cs2 = <<>> THEN q
        ELSE Queue(IF \E i \in 1..Len(q) :
                        /\ q[i].watcher = Head(cs2).watcher
                        /\ q[i].path = Head(cs2).path
                   THEN q
                   ELSE Append(q, [Head(cs2) EXCEPT !.seen = Undefined,
                                                    !.has = FALSE]),
              Tail(cs2))
  IN  /\ ran' = now
      /\ pend' = Queue(pend, later)

Operation(o, p, prop, value, ret) ==
  [op |-> o, node |-> p, prop |-> prop, value |-> value, ret |-> ret,
   n |-> last.n + 1]

Proxies == 1..Len(proxies)

\* praxys(S, $), or node({ state, config }) without a root, for a raw
\* object or for a proxy
Praxys(state, config) ==
  LET r == node(World, state, None, <<"$">>, config)
  IN  /\ Install(r.w)
      /\ last.n < MaxNodeOps
      /\ last' = Operation("node", None, <<>>, state, r.ret)
      /\ Deliver(r.w.calls)
      /\ UNCHANGED <<written, open>>
      /\ UNCHANGED <<vars, registryVars, pathVars, configVars>>

\* proxy[prop]
Get(p, prop) ==
  LET r == GetTrap(World, p, prop)
  IN  /\ Install(r.w)
      /\ last.n < MaxNodeOps
      /\ last' = Operation("get", p, prop, Undefined, r.ret)
      /\ Deliver(r.w.calls)
      /\ UNCHANGED <<written, open>>
      /\ UNCHANGED <<vars, registryVars, pathVars, configVars>>

\* root.watch(() => { proxy[prop]; }): the callback runs at once, with
\* the activeDependency of the root's watcher set for its whole run
WatchGet(root, p, prop) ==
  LET r == GetTrap(World, p, prop)
  IN  /\ root \in DOMAIN watchers
      /\ Install(r.w)
      /\ last.n < MaxNodeOps
      /\ last' = Operation("watch", p, prop, NodeRef(root), r.ret)
      /\ Deliver(r.w.calls)
      /\ UNCHANGED <<written, open>>
      /\ UNCHANGED <<vars, registryVars, pathVars, configVars>>

\* proxy[prop] = value
Set(p, prop, value) ==
  LET w == SetTrap(World, p, prop, value)
  IN  /\ Install(w)
      /\ last.n < MaxNodeOps
      /\ last' = Operation("set", p, prop, value, Undefined)
      /\ written' = MapSet(written, <<p, prop>>, value)
      /\ Deliver(w.calls)
      /\ UNCHANGED open
      /\ UNCHANGED <<vars, registryVars, pathVars, configVars>>

\* try { proxy[prop] = value } catch (e) { ... }, for any key
Assign(p, prop, value) ==
  LET w == SetTrap(World, p, prop, value)
  IN  /\ Install(w)
      /\ last.n < MaxNodeOps
      /\ last' = Operation("assign", p, prop, value,
                           [t |-> SetOutcome(World, p, prop), v |-> 0])
      /\ written' = IF w = World THEN written
                    ELSE MapSet(written, <<p, prop>>, value)
      /\ Deliver(w.calls)
      /\ UNCHANGED open
      /\ UNCHANGED <<vars, registryVars, pathVars, configVars>>

\* delete proxy[prop]
Delete(p, prop) ==
  LET w == DeleteTrap(World, p, prop)
  IN  /\ Install(w)
      /\ last.n < MaxNodeOps
      /\ last' = Operation("delete", p, prop, Undefined, Undefined)
      /\ written' = MapDelete(written, <<p, prop>>)
      /\ Deliver(w.calls)
      /\ UNCHANGED open
      /\ UNCHANGED <<vars, registryVars, pathVars, configVars>>

\* proxy.toJSON()
ToJSON(p) ==
  /\ last.n < MaxNodeOps
  /\ last' = Operation("toJSON", p, <<>>, Undefined,
                       toJSON(World, proxies[p].state, MaxJsonDepth))
  /\ UNCHANGED <<heap, proxies, sources, instances, watchers, methods,
                 extensions, references, calls, written, extOnly, open,
                 pend, ran>>
  /\ UNCHANGED <<vars, registryVars, pathVars, configVars>>

\* The user's code fills its state objects before it makes a node.
Literal(raw, prop, value) ==
  /\ proxies = <<>>
  /\ heap' = MapSet(heap, raw, MapSet(heap[raw], prop, value))
  /\ last.n < MaxNodeOps
  /\ last' = Operation("literal", None, prop, value, Undefined)
  /\ calls' = <<>>
  /\ ran' = <<>>
  /\ UNCHANGED <<proxies, sources, instances, watchers, methods, extensions,
                 references, written, extOnly, open, pend>>
  /\ UNCHANGED <<vars, registryVars, pathVars, configVars>>

\* root.batch(fn): fn starts
BatchOpen(p) ==
  /\ p \in DOMAIN watchers
  /\ open = {}
  /\ open' = open \cup {watchers[p]}
  /\ last.n < MaxNodeOps
  /\ last' = Operation("batch", p, <<>>, Undefined, Undefined)
  /\ calls' = <<>>
  /\ ran' = <<>>
  /\ UNCHANGED <<heap, proxies, sources, instances, watchers, methods,
                 extensions, references, written, extOnly, pend>>
  /\ UNCHANGED <<vars, registryVars, pathVars, configVars>>

\* root.batch(fn): fn has returned and the pending paths are flushed; the
\* callbacks read the state as it is now
BatchFlush(p) ==
  /\ p \in DOMAIN watchers
  /\ watchers[p] \in open
  /\ open' = open \ {watchers[p]}
  /\ ran' = [i \in 1..Len(SelectSeq(pend, LAMBDA c : c.watcher = watchers[p]))
               |-> LET c == SelectSeq(pend,
                                      LAMBDA d : d.watcher = watchers[p])[i]
                   IN  [c EXCEPT
                          !.seen = Resolved(World, c.node, c.prop),
                          !.has = c.prop \in DOMAIN heap[proxies[c.node].state]]]
  /\ pend' = SelectSeq(pend, LAMBDA c : c.watcher # watchers[p])
  /\ last.n < MaxNodeOps
  /\ last' = Operation("flush", p, <<>>, Undefined, Undefined)
  /\ calls' = <<>>
  /\ UNCHANGED <<heap, proxies, sources, instances, watchers, methods,
                 extensions, references, written, extOnly>>
  /\ UNCHANGED <<vars, registryVars, pathVars, configVars>>

\* The object the user's code nests in another.
Nested == RawRef(NumRaws)

DataValues == UserPrims \cup {Nested} \cup {NodeRef(p) : p \in Proxies}

NodeNext ==
  \/ \E state \in {RawRef(r) : r \in Raws} \cup {NodeRef(p) : p \in Proxies},
        config \in Configs :
       Praxys(state, config)
  \/ \E p \in Proxies, prop \in {NameA, NameB, NameWatch} : Get(p, prop)
  \/ \E root, p \in Proxies, prop \in {NameA, NameB} : WatchGet(root, p, prop)
  \/ \E p \in Proxies, value \in DataValues : Set(p, NameA, value)
  \/ \E p \in Proxies : Set(p, NameB, Prim(1))
  \/ \E p \in Proxies, prop \in {NameA, NameB} : Delete(p, prop)
  \/ \E p \in Proxies : ToJSON(p)
  \/ \E raw \in Raws, value \in {Prim(1), Nested} : Literal(raw, NameA, value)
  \/ \E p \in Proxies : BatchOpen(p)
  \/ \E p \in Proxies : BatchFlush(p)

NodeSpec == Loaded /\ [][NodeNext]_nodeVars

\* The set trap with every kind of key and of extension descriptor: roots
\* made with a configuration whose extend function defines one name, and
\* writes and reads through them.
TrapConfigs ==
  {NoConfig} \cup
  {[at |-> <<"$">>, key |-> key] : key \in {KeyARef, NameB, NameG, NameS}}

TrapKeys == {NameA, NameB, NameG, NameS, NameIndex, NameWatch, SymbolKey}

TrapNext ==
  \/ \E raw \in Raws, config \in TrapConfigs :
       last.n < MaxTrapOps /\ Praxys(RawRef(raw), config)
  \/ \E p \in Proxies, prop \in TrapKeys, value \in UserPrims :
       last.n < MaxTrapOps /\ Assign(p, prop, value)
  \/ \E p \in Proxies, prop \in TrapKeys \ {SymbolKey} :
       last.n < MaxTrapOps /\ Get(p, prop)

TrapSpec == Loaded /\ [][TrapNext]_nodeVars

\* ---- properties ----------------------------------------------------------
\* The pass that invoked the run frame at position i.
Invoker(i) == stack[i - 1]

\* Positions of the executions of callbacks started by a pass.
Reruns == {i \in 2..Depth : stack[i].kind = "run" /\ ~stack[i].flag}

LiveDependents(path) == runCallbacks(DependentsOf(path), <<>>)

\* C1: exact-path delivery. A callback is invoked by a notify or a flush
\* only when one of the paths the pass is for is a path that callback's
\* body has itself read; a write to another path, be it a prefix or an
\* extension of a path it read, never invokes it.
C1_ExactPathDelivery ==
  \A i \in Reruns :
    /\ Invoker(i).kind \in PassKinds
    /\ Invoker(i).paths \cap everRead[stack[i].cb] # {}

\* A callback runs for a write to a path while a live callback that read
\* only a prefix or an extension of that path is left alone.
C1_Witness ==
  \E i \in Reruns :
    /\ Invoker(i).kind = "notify"
    /\ \E c \in DOMAIN callbackPaths \ unwatchedCallbacks :
         /\ c \notin Range(Invoker(i).done) \cup Range(Invoker(i).toRun)
         /\ everRead[c] # {}
         /\ \A p \in everRead[c] :
              /\ p # Invoker(i).path
              /\ IsPrefix(p, Invoker(i).path) \/ IsPrefix(Invoker(i).path, p)

\* The watch(cb) call whose initial run is the innermost frame: its body
\* may return now, and watch with it.
WatchMayReturn == Depth > 0 /\ Top.kind = "run" /\ Top.flag

\* C2: when watch(cb) returns, cb has been invoked exactly once since watch
\* was called, whatever the body read or wrote.
C2_Original == WatchMayReturn => Top.cnt = 1

\* C3: stop finality. A notify or flush that begins after stop(cb) has been
\* called never invokes cb: no execution of a callback is started by a pass
\* that was collected when the callback was already marked unwatched.
C3_StopFinality ==
  \A i \in Reruns : stack[i].cb \notin Invoker(i).unw0

\* A pass has been collected for a path that a callback, stopped before,
\* had read, and the pass does not hold that callback.
C3_Witness ==
  \E i \in 1..Depth :
    /\ stack[i].kind \in PassKinds
    /\ \E c \in stack[i].unw0 :
         /\ everRead[c] \cap stack[i].paths # {}
         /\ c \notin Range(stack[i].done) \cup Range(stack[i].toRun)

\* C4: a callback that is marked unwatched is never invoked, also when it
\* was stopped while the pass that invokes it was already running.
C4_Original == \A i \in 1..Depth : stack[i].kind = "run" => ~stack[i].unw

\* A batch call, made while no other batch call was on the stack, whose
\* function has performed two operations, writes of two different paths.
BatchOfTwo ==
  /\ Depth > 0
  /\ Top.kind \in {"batch", "flush"}
  /\ BatchFrames(stack) = 1
  /\ Cardinality(Top.writes) = 2
  /\ Top.left = MaxOps - 2

\* The batch call of frame f returns at its next step.
End(f) ==
  \/ f.kind = "flush" /\ f.toRun = <<>>
  \/ f.kind = "batch" /\ ~(f.flag /\ collectPending(pendingPaths, <<>>) # <<>>)

C6_Original ==
  \A i, j \in 1..Depth :
    (i < j /\ stack[i].kind = "batch") => stack[j].kind \notin PassKinds

\* Positions of the batch calls whose function is executing while no other
\* batch call is on the stack below them, and that have written a path.
OutermostBatches ==
  {i \in 1..Depth : /\ stack[i].kind = "batch"
                    /\ BatchFrames(SubSeq(stack, 1, i - 1)) = 0
                    /\ stack[i].writes # {}}

\* C7: batch failure discards. When an exception leaves the function of an
\* outermost batch that has written a path, no callback was invoked by a
\* pass while the function executed, and batchMode is false and
\* pendingPaths is empty once the exception has reached the caller of
\* batch, so that a later write notifies at once.
C7_Original ==
  [][\A i \in OutermostBatches :
       (ev'.op = "throw" /\ Len(stack') < i)
         => (/\ ~batchMode'
             /\ pendingPaths' = <<>>
             /\ stack[i].during = {})]_vars

\* C8: recursion guard. While notify(p) is running its callbacks, p is in
\* inProgress, no second notify(p) is started inside it (the inner write is
\* a no-op), and the pass holds each callback once: a callback that writes
\* the path it was notified for is not invoked again by that notification.
C8_RecursionGuard ==
  /\ \A i \in 1..Depth :
       stack[i].kind = "notify" =>
         /\ stack[i].path \in inProgress
         /\ \A c \in Callbacks :
              Occurrences(stack[i].done \o stack[i].toRun, c) <= 1
  /\ \A i, j \in 1..Depth :
       (i < j /\ stack[i].kind = "notify" /\ stack[j].kind = "notify")
         => stack[i].path # stack[j].path
  /\ (ev.op = "write" /\ ev.how = "guarded") =>
       (Depth > 0 /\ Top.kind # "notify")

\* A callback invoked by notify(p) has just written p itself: the write was
\* guarded, and the pass has invoked it once and has nothing left to run.
C8_Witness ==
  /\ ev.op = "write" /\ ev.how = "guarded"
  /\ Depth >= 2
  /\ Top.kind = "run" /\ ~Top.flag
  /\ Invoker(Depth).kind = "notify"
  /\ Invoker(Depth).path = ev.path
  /\ Invoker(Depth).done = <<Top.cb>>
  /\ Invoker(Depth).toRun = <<>>
  /\ Top.cb \in Range(DependentsOf(ev.path))

\* C9: ignore suppresses notification and is re-entrant. ignoreMode is true
\* exactly while some ignore call is on the stack, each ignore call having
\* saved the value that held before it (so it is false again when the
\* outermost one has exited, normally or by an exception), and a write made
\* while an ignore call is on the stack is dropped and starts no pass.
C9_IgnoreReentrant ==
  /\ ignoreMode <=> InsideIgnore(stack)
  /\ \A i \in 1..Depth :
       stack[i].kind = "ignore" =>
         (stack[i].flag <=> InsideIgnore(SubSeq(stack, 1, i - 1)))
  /\ (ev.op = "write" /\ InsideIgnore(stack)) =>
       (ev.how = "ignored" /\ Top.kind \notin PassKinds)

\* A path with live dependents has just been written inside an ignore call
\* nested in another ignore call, and nothing was invoked.
C9_Witness ==
  /\ ev.op = "write" /\ ev.how = "ignored"
  /\ LiveDependents(ev.path) # <<>>
  /\ Depth >= 2
  /\ Top.kind = "ignore" /\ Top.flag
  /\ Invoker(Depth).kind = "ignore"

Edges(m) ==
  {e \in Callbacks \X Paths : e[1] \in DOMAIN m /\ e[2] \in m[e[1]]}

\* C11: ignore(fn) runs fn without tracking dependencies. A step taken by
\* the function of an ignore call (the ignore frame is the innermost frame)
\* records no dependency edge, wherever ignore was called from.
C11_Original ==
  [][(Depth > 0 /\ Top.kind = "ignore")
     => Edges(callbackPaths') \subseteq Edges(callbackPaths)]_vars

C13_Original ==
  (Depth > 0 /\ Top.kind = "run" /\ ~Top.flag /\ Top.left = 0)
  => \A p \in Paths \ Top.reads : Top.cb \notin Range(LiveDependents(p))

\* ---- the plugin registry -------------------------------------------------

\* The function of the first call in history h that registered key.
RECURSIVE FirstRegistered(_, _)
FirstRegistered(h, key) ==
  IF h = <<>> THEN "undefined"
  ELSE IF Head(h)[1] = key THEN Head(h)[2]
  ELSE FirstRegistered(Tail(h), key)

\* C20: plugin registry guard. register throws and changes nothing for an
\* empty key or a key already registered; otherwise it returns and adds
\* exactly the mapping key -> pluginFn. resolve gives the function of the
\* first successful registration of the key, undefined if there is none.
C20_RegistryGuard ==
  [][/\ outcome'.op = "register"
        => IF outcome'.key = "" \/ outcome'.key \in DOMAIN plugins
           THEN /\ outcome'.result # "returned"
                /\ plugins' = plugins
           ELSE /\ outcome'.result = "returned"
                /\ DOMAIN plugins' = DOMAIN plugins \cup {outcome'.key}
                /\ plugins'[outcome'.key] = outcome'.fn
                /\ \A k \in DOMAIN plugins : plugins'[k] = plugins[k]
     /\ outcome'.op = "resolve"
        => /\ outcome'.result = FirstRegistered(registered, outcome'.key)
           /\ plugins' = plugins]_registryVars

\* A second registration of a key, with another function, has just been
\* refused and the key still resolves to the first function.
C20_Witness ==
  /\ outcome.op = "register"
  /\ outcome.result = "already registered"
  /\ plugins[outcome.key] # outcome.fn
  /\ plugins[outcome.key] = FirstRegistered(registered, outcome.key)

\* ---- path formation ------------------------------------------------------
BracketPath == trapPath \o <<"[">> \o trapProp \o <<"]">>

DotPath == trapPath \o <<".">> \o trapProp

\* C17 as stated: the index form is used for non-negative integers only.
C17_Original ==
  \A t \in DOMAIN reported :
    reported[t] = IF DecimalDigits(trapProp) THEN BracketPath ELSE DotPath

\* C17: path formation. The get, set and deleteProperty traps report the
\* same child path, P[prop] when Number(prop) is not NaN and P.prop
\* otherwise: the index form for non-negative integers and also for the
\* empty string, blank strings, signed numbers, decimals, exponent and
\* hexadecimal forms; the dot form for names, a lone sign or point, and
\* digits followed by a letter. Every path starts at the root path "$".
C17_PathFormation ==
  /\ trapPath[1] = "$"
  /\ \A t, u \in DOMAIN reported : reported[t] = reported[u]
  /\ \A t \in DOMAIN reported :
       /\ reported[t] = IF StringNumericLiteral(trapProp) THEN BracketPath
                        ELSE DotPath
       /\ DecimalDigits(trapProp) => reported[t] = BracketPath
       /\ trapProp \in {<<>>, <<" ">>, <<"-", "1">>, <<"1", ".", "0">>,
                        <<".", "1">>, <<"1", ".">>, <<"1", "e", "1">>,
                        <<"0", "x", "a">>, <<" ", "1", " ">>}
          => reported[t] = BracketPath
       /\ trapProp \in {<<"a">>, <<"-">>, <<".">>, <<"e">>, <<"1", "a">>,
                        <<"e", "1">>, <<"1", "e">>, <<"0", "x">>,
                        <<"-", "-", "1">>, <<"1", " ", "1">>,
                        <<"1", "-", "1">>, <<".", "e", "1">>,
                        <<"-", "0", "x">>, <<"1", ".", ".">>}
          => reported[t] = DotPath

\* All three traps of a node below the root have reported the path of the
\* member "-1", in the index form.
C17_Witness ==
  /\ DOMAIN reported = {"get", "set", "delete"}
  /\ trapProp = <<"-", "1">>
  /\ Len(trapPath) > 1
  /\ reported["delete"] = BracketPath


\* C14: idempotent proxy identity. There is at most one proxy per raw
\* object and sources names it; wrapping a raw object that has a proxy
\* returns that proxy and makes nothing, whatever the configuration;
\* wrapping a proxy returns the proxy; a read that returned a proxy returns
\* the same proxy when it is made again.
C14_ProxyIdentity ==
  /\ \A p, q \in Proxies : proxies[p].state = proxies[q].state => p = q
  /\ DOMAIN sources = {proxies[p].state : p \in Proxies}
  /\ \A r \in DOMAIN sources : proxies[sources[r]].state = r
  /\ \A r \in DOMAIN sources, config \in Configs :
       LET again == node(World, RawRef(r), None, <<"$">>, config)
       IN  again.ret = NodeRef(sources[r]) /\ again.w = World
  /\ \A p \in Proxies, config \in Configs :
       node(World, NodeRef(p), None, <<"$">>, config).ret = NodeRef(p)
  /\ (last.op = "node" /\ last.value.t = "node") => last.ret = last.value
  /\ (last.op = "node" /\ last.value.t = "raw") =>
       /\ last.ret.t = "node"
       /\ proxies[last.ret.v].state = last.value.v
  /\ (last.op = "get" /\ last.ret.t = "node") =>
       LET first == GetTrap(World, last.node, last.prop)
           second == GetTrap(first.w, last.node, last.prop)
       IN  first.ret = last.ret /\ second.ret = last.ret

\* A raw object that a read had wrapped as a child is wrapped again, and a
\* second node exists.
C14_Witness ==
  /\ last.op = "node"
  /\ last.value.t = "raw"
  /\ last.value.v \in DOMAIN sources
  /\ proxies[sources[last.value.v]].root # None
  /\ last.ret = NodeRef(sources[last.value.v])
  /\ Len(proxies) = NumRaws


\* C15: reference properties bypass reactivity. In every state, reading or
\* writing a name that is in the node's reference set calls no watcher
\* function, once or twice in a row, and no callback runs or is queued for
\* such a write; writing a name that is not in the set calls onSet once
\* with the property's path on the watcher of the node's root.
C15_ReferencesBypass ==
  /\ \A p \in Proxies : \A prop \in references[p] :
       /\ GetTrap(World, p, prop).w = World
       /\ \A value \in DataValues :
            LET once == SetTrap(World, p, prop, value)
            IN  /\ once.calls = <<>>
                /\ SetTrap(once, p, prop, value).calls = <<>>
                /\ GetTrap(once, p, prop).w.calls = <<>>
  /\ \A p \in Proxies : \A prop \in {NameA, NameB} \ references[p] :
       \A value \in DataValues :
         LET cs == SetTrap(World, p, prop, value).calls
         IN  /\ Len(cs) = 1
             /\ cs[1].op = "onSet"
             /\ cs[1].path = setPropPath(proxies[p].path, prop)
             /\ cs[1].watcher = watchers[RootOf(World, p)]
  /\ (last.op \in {"get", "set"} /\ last.prop \in references[last.node]) =>
       calls = <<>> /\ ran = <<>>
  /\ (last.op = "set" /\ last.prop \notin references[last.node]) =>
       Len(calls) = 1 /\ calls[1].op = "onSet"
  /\ \A i \in 1..Len(pend) :
       pend[i].op = "onSet" => pend[i].prop \notin references[pend[i].node]

\* A reference property has been written through its node.
C15_Witness ==
  /\ last.op = "set"
  /\ last.prop \in references[last.node]
  /\ last.node \in DOMAIN watchers
  /\ extensions[last.node][last.prop] = last.value
  /\ last.value # ExtensionValue
  /\ calls = <<>>


\* The keys of a toJSON result and of the results nested in it, each with
\* the raw object it was read from.
RECURSIVE JsonKeys(_, _)
JsonKeys(raw, depth) ==
  IF depth = 0 THEN {}
  ELSE {<<raw, k>> : k \in DOMAIN heap[raw]} \cup
       UNION {IF ObjectOf(World, heap[raw][k]) = None THEN {}
              ELSE JsonKeys(ObjectOf(World, heap[raw][k]), depth - 1) :
              k \in DOMAIN heap[raw]}

\* C16: serialization fidelity. What toJSON returns for a node, at any
\* level of nesting, has no property that the raw state has only because
\* an extension defined it.
C16_Original ==
  (last.op = "toJSON" /\ last.ret.t = "object") =>
    /\ \A k \in DOMAIN last.ret.props :
         <<proxies[last.node].state, k>> \notin extOnly
    /\ JsonKeys(proxies[last.node].state, MaxJsonDepth) \cap extOnly = {}


\* C18: root-only watcher. A node has a watcher and the methods watch,
\* batch and ignore exactly when it was made without a root; the watchers
\* of different roots are different; reading a method from a root gives
\* the function, reading it from a node made with a root gives undefined,
\* and such a node reports to the watcher of its root.
C18_RootOnlyWatcher ==
  /\ DOMAIN watchers \subseteq Proxies
  /\ \A p \in Proxies :
       /\ p \in DOMAIN watchers <=> proxies[p].root = None
       /\ proxies[p].state \in methods <=> proxies[p].root = None
       /\ GetTrap(World, p, NameWatch).ret =
            IF proxies[p].root = None THEN Function ELSE Undefined
       /\ proxies[p].root # None => proxies[p].root \in DOMAIN watchers
  /\ \A p, q \in DOMAIN watchers : watchers[p] = watchers[q] => p = q
  /\ (last.op = "get" /\ last.prop = NameWatch) =>
       last.ret = IF proxies[last.node].root = None THEN Function
                  ELSE Undefined

\* A method has been read from a node made with a root.
C18_Witness ==
  /\ last.op = "get"
  /\ last.prop = NameWatch
  /\ proxies[last.node].root # None
  /\ last.ret = Undefined
  /\ last.node \notin DOMAIN watchers


\* The watcher that the traps of proxy p call is executing a batch function.
InBatch(p) == watchers[RootOf(World, p)] \in open

OpenBatches == Cardinality({i \in 1..Depth : stack[i].kind = "batch"})

\* C23: batchLevel is a true nesting counter. In every state batchLevel is
\* not negative and is the number of batch calls whose function has not
\* finished.
C23_Original == batchLevel >= 0 /\ batchLevel = OpenBatches


\* The watcher fields that the finally and catch blocks write.
Cleaned ==
  [activeDependency |-> activeDependency, inProgress |-> inProgress,
   ignoreMode |-> ignoreMode, batchLevel |-> batchLevel,
   batchMode |-> batchMode, pendingPaths |-> pendingPaths]

\* The k innermost frames are the watcher operation that user code called:
\* the top-level caller, or the user function of the frame below them.
CalledByUser(k) == k = Depth \/ stack[Depth - k].kind \in CodeKinds

\* C24: guaranteed cleanup on exceptions. Whenever the running user
\* function could throw, and for every caller on the stack that could
\* catch the exception: once the exception has reached that caller, every
\* callback it left has reset activeDependency to none, the path of every
\* notify it left is out of inProgress, and ignoreMode is what it was
\* before the caller's operation. When no watcher operation is executing,
\* activeDependency is none and inProgress is empty.
C24_CleanupOnException ==
  /\ Depth = 0 =>
       activeDependency = None /\ inProgress = {} /\ ~ignoreMode
  /\ ev.op = "throw" => Depth = 0
  /\ (InCode /\ Depth > 0) =>
       \A k \in 1..Depth :
         CalledByUser(k) =>
           LET w == Unwind(stack, k, Cleaned)
               gone == {stack[i] : i \in (Depth - k + 1)..Depth}
           IN  /\ (\E f \in gone : f.kind = "run") =>
                    w.activeDependency = None
               /\ \A f \in gone : f.kind = "notify" =>
                    f.path \notin w.inProgress
               /\ w.ignoreMode =
                    InsideIgnore(SubSeq(stack, 1, Depth - k))
               /\ w.inProgress =
                    {stack[i].path : i \in {j \in 1..(Depth - k) :
                                              stack[j].kind = "notify"}}

\* An exception thrown by a callback during a batch flush has reached the
\* top-level caller, and dependencies exist.
C24_Witness ==
  /\ ev.op = "throw"
  /\ batchLevel < 0
  /\ activeDependency = None
  /\ inProgress = {}
  /\ ~ignoreMode
  /\ DOMAIN pathDependencies # {}


\* C25: tracking attribution. While user code is executing,
\* activeDependency is the callback whose body is the innermost one
\* executing (none outside every body), so that each read the body makes
\* is recorded for it, also after a nested callback has returned.
C25_Original ==
  InCode => activeDependency = RunningBody(stack)


\* ---- the two dependency indexes ------------------------------------------

\* The edges that pathDependencies holds, as (callback, path) pairs.
PathEdges(m) ==
  {e \in Callbacks \X Paths : e[2] \in DOMAIN m /\ e[1] \in Range(m[e[2]])}

\* C26: the two dependency indexes are inverse of each other. In every
\* state (a stop call is one step), callback c is in pathDependencies[p]
\* exactly when p is in callbackPaths[c].
C26_IndexesInverse ==
  /\ PathEdges(pathDependencies) = Edges(callbackPaths)
  /\ \A c \in DOMAIN callbackPaths : callbackPaths[c] # {}

\* A callback that had read both paths has been stopped while another
\* callback keeps its edges to both.
C26_Witness ==
  \E c \in unwatchedCallbacks, d \in Callbacks \ unwatchedCallbacks :
    /\ everRead[c] = Paths
    /\ c \notin DOMAIN callbackPaths
    /\ d \in DOMAIN callbackPaths
    /\ callbackPaths[d] = Paths
    /\ \A p \in Paths : pathDependencies[p] = <<d>>


\* C27: no dangling path entries. Every key of pathDependencies maps to a
\* set that is not empty, and the keys are exactly the paths some callback
\* has an edge to: when stop removes the last callback of a path, the key
\* is deleted.
C27_NoDanglingPaths ==
  /\ \A p \in DOMAIN pathDependencies : pathDependencies[p] # <<>>
  /\ DOMAIN pathDependencies =
       {p \in Paths : \E c \in DOMAIN callbackPaths : p \in callbackPaths[c]}

\* The only callback of a path has been stopped and the key of the path is
\* gone, while another path keeps its key.
C27_Witness ==
  \E c \in unwatchedCallbacks, p \in Paths :
    /\ p \in everRead[c]
    /\ \A d \in Callbacks \ {c} : p \notin everRead[d]
    /\ p \notin DOMAIN pathDependencies
    /\ DOMAIN pathDependencies # {}


\* C28: a stopped callback has no dependency edges. A callback whose stop
\* function has been called is in no set of pathDependencies and has no
\* entry in callbackPaths, whatever happens after the call.
C28_Original ==
  \A c \in unwatchedCallbacks :
    /\ c \notin DOMAIN callbackPaths
    /\ \A p \in DOMAIN pathDependencies : c \notin Range(pathDependencies[p])


\* C29: stop is idempotent. Calling the stop function of a callback that
\* is already marked unwatched changes neither map: the stop function is
\* the only operation that removes edges, so no step removes an edge of a
\* callback that was marked unwatched before the step.
C29_Original ==
  [][\A e \in Edges(callbackPaths) :
       e[1] \in unwatchedCallbacks
         => /\ e \in Edges(callbackPaths')
            /\ e \in PathEdges(pathDependencies')]_vars


\* ---- the flush of a batch -------------------------------------------------

\* The step is the start of processBatchNotifications with callbacks to run.
FlushStarts ==
  /\ Depth > 0
  /\ Top.kind = "batch"
  /\ Len(stack') = Depth
  /\ stack'[Depth].kind = "flush"

\* The callbacks, not marked unwatched, that callbackPaths gives an edge to
\* one of the pending paths.
DependOnPending ==
  {c \in Callbacks \ unwatchedCallbacks :
     \E p \in Range(pendingPaths) : <<c, p>> \in Edges(callbackPaths)}

\* C30: flush deduplication. A flush collects each callback, not stopped,
\* that depends on at least one pending path, once, and no other callback;
\* while the flush runs it invokes the collected callbacks one after the
\* other, never one twice; when it has invoked them all it leaves
\* pendingPaths empty. A batch with nothing to run leaves it empty as well.
C30_FlushDeduplication ==
  [][/\ FlushStarts =>
          /\ Range(stack'[Depth].toRun) = DependOnPending
          /\ \A c \in Callbacks : Occurrences(stack'[Depth].toRun, c) <= 1
          /\ stack'[Depth].done = <<>>
          /\ stack'[Depth].paths = Range(pendingPaths)
     /\ \A i \in 1..Depth :
          (stack[i].kind = "flush" /\ Len(stack') >= i) =>
            /\ stack'[i].kind = "flush"
            /\ stack'[i].done \o stack'[i].toRun
                 = stack[i].done \o stack[i].toRun
            /\ stack'[i].done # stack[i].done =>
                 /\ i = Depth
                 /\ stack'[i].done = Append(stack[i].done, Head(stack[i].toRun))
                 /\ Len(stack') = i + 1
                 /\ stack'[i + 1].kind = "run"
                 /\ stack'[i + 1].cb = Head(stack[i].toRun)
     /\ (Depth > 0 /\ Top.kind = "flush" /\ Len(stack') < Depth
           /\ ev'.op # "throw") =>
          /\ Top.toRun = <<>>
          /\ \A c \in Callbacks : Occurrences(Top.done, c) <= 1
          /\ pendingPaths' = <<>>
     /\ (Depth > 0 /\ Top.kind = "batch" /\ Top.flag /\ Len(stack') < Depth
           /\ ev'.op # "throw") =>
          /\ DependOnPending = {}
          /\ pendingPaths' = <<>>]_vars

\* A flush for two pending paths has invoked two callbacks, one of which
\* never read one of the paths, and has nothing left to run.
C30_Witness ==
  /\ Depth > 0
  /\ Top.kind = "flush"
  /\ Top.toRun = <<>>
  /\ Cardinality(Top.paths) = 2
  /\ Cardinality(Range(Top.done)) = 2
  /\ Len(Top.done) = 2
  /\ \E c \in Range(Top.done) : everRead[c] # Paths


\* ---- configuration chains: config, processConfig, the target plugin ----

\* The most chains a configuration gets.
MaxChains == 2

\* The most plugin entries all the chains hold together.
MaxPlugins == 3

\* The most elements of a chain proxy's pathArr.
MaxSegments == 3

\* Property names the configuration expressions use.
Names == {"a"}

\* The names the registry resolves: target and extend are registered when
\* their modules load.
Methods == {"target", "extend"}

\* String(x): the characters of a path element
String(seg) ==
  CASE seg = "$" -> <<"$">>
    [] seg = "a" -> <<"a">>
    [] seg = "target" -> <<"t", "a", "r", "g", "e", "t">>
    [] seg = "extend" -> <<"e", "x", "t", "e", "n", "d">>

\* pathArr.map(String).join('.')
RECURSIVE JoinDot(_)
JoinDot(arr) ==
  IF arr = <<>> THEN <<>>
  ELSE IF Len(arr) = 1 THEN String(arr[1])
  ELSE String(Head(arr)) \o <<".">> \o JoinDot(Tail(arr))

\* resolve(name)
Resolves(name) == \E m \in Methods : String(m) = name

\* The options a plugin call records: target takes a boolean or a function
\* of {path, state}; extend takes an extension function.
TargetOptions == {"true", "false", "isItem", "hasPrice"}

ExtendOptions == {"f"}

\* The paths of the nodes processConfig is called for.
NodePaths ==
  {<<"$">>, <<"$", ".", "a">>, <<"$", ".", "a", "[", "0", "]">>,
   <<"$", ".", "a", "b">>, <<"$", ".", "b">>}

\* The target functions: ({path}) => path.match(/\[\d+\]$/), whose result is
\* an array or null, and ({state}) => typeof state.price === 'number'.
CallOption(options, path, price) ==
  IF options = "isItem"
  THEN IF Len(path) >= 3 /\ path[Len(path)] = "]" THEN "array" ELSE "null"
  ELSE IF price THEN "true" ELSE "false"

\* target(args)(options)
target(path, price, options) ==
  IF options \in {"true", "false"} THEN options
  ELSE CallOption(options, path, price)

\* !targeted is false
Truthy(v) == v \in {"true", "array"}

\* path.startsWith(chain._path)
StartsWith(path, prefix) ==
  Len(prefix) <= Len(path) /\ SubSeq(path, 1, Len(prefix)) = prefix

hasTargeters(chain) ==
  \E i \in 1..Len(chain.plugins) : chain.plugins[i].name = "target"

\* Variant: every chain that passes the filter counts as exact.
isExactPathAlways(chain, path) == TRUE

isExactPath(chain, path) == chain.path = path

\* for (const targeter of targeters): the entries asked, until one answers
\* with a falsy value
RECURSIVE AskTargeters(_, _, _, _)
AskTargeters(plugs, i, path, price) ==
  IF i > Len(plugs) THEN [asked |-> <<>>, isTargeted |-> TRUE]
  ELSE IF plugs[i].name # "target"
  THEN AskTargeters(plugs, i + 1, path, price)
  ELSE IF ~Truthy(target(path, price, plugs[i].opts))
  THEN [asked |-> <<i>>, isTargeted |-> FALSE]
  ELSE LET rest == AskTargeters(plugs, i + 1, path, price)
       IN [asked |-> <<i>> \o rest.asked, isTargeted |-> rest.isTargeted]

\* Variant: the target entries are run like the other plugins.
RunPluginsAll(plugs) == [i \in 1..Len(plugs) |-> i]

\* for (const plug of chain._plugins): extend(args) for each entry that is
\* not a target entry; the entries run, in order
RunPlugins(plugs) ==
  SelectSeq([i \in 1..Len(plugs) |-> i],
            LAMBDA i : plugs[i].name # "target")

NothingRun == [asked |-> <<>>, ran |-> <<>>]

\* The body of processConfig's loop for one chain, the filter included.
ProcessChain(chain, path, price) ==
  IF ~StartsWith(path, chain.path) THEN NothingRun
  ELSE IF ~hasTargeters(chain) /\ ~isExactPath(chain, path) THEN NothingRun
  ELSE LET t == AskTargeters(chain.plugins, 1, path, price)
       IN IF ~t.isTargeted THEN [asked |-> t.asked, ran |-> <<>>]
          ELSE [asked |-> t.asked, ran |-> RunPlugins(chain.plugins)]

\* processConfig({config, path, state}): for each chain, the targeters asked
\* and the plugins run
processChains(cs, path, price) ==
  [k \in 1..Len(cs) |-> ProcessChain(cs[k], path, price)]

RECURSIVE CountPlugins(_)
CountPlugins(cs) ==
  IF cs = <<>> THEN 0 ELSE Len(Head(cs).plugins) + CountPlugins(Tail(cs))

\* $.prop: the root proxy's get starts a chain
RootGet(prop) ==
  /\ Len(chains) < MaxChains
  /\ chains' = Append(chains, [path |-> <<"$", ".">> \o String(prop),
                               plugins |-> <<>>])
  /\ cursor' = [arr |-> <<"$", prop>>, chain |-> Len(chains) + 1]
  /\ applied' = NotApplied
  /\ UNCHANGED <<vars, registryVars, pathVars, nodeVars>>

\* chainProxy.prop: a chain proxy's get extends pathArr
ChainGet(prop) ==
  /\ cursor # NoCursor
  /\ Len(cursor.arr) < MaxSegments
  /\ cursor' = [cursor EXCEPT !.arr = Append(@, prop)]
  /\ applied' = NotApplied
  /\ UNCHANGED <<chains, vars, registryVars, pathVars, nodeVars>>

\* chainProxy(opts): configFn
ChainCall(opts) ==
  /\ cursor # NoCursor
  /\ LET arr == cursor.arr
         methodName == arr[Len(arr)]
         parentPathArr == SubSeq(arr, 1, Len(arr) - 1)
         namespaced == {i \in 2..(Len(arr) - 1) :
                          Resolves(JoinDot(SubSeq(arr, i, Len(arr))))}
     IN IF Resolves(String(methodName))
        THEN /\ CountPlugins(chains) < MaxPlugins
             /\ opts \in (IF methodName = "target" THEN TargetOptions
                          ELSE ExtendOptions)
             /\ chains' = [chains EXCEPT ![cursor.chain] =
                             [path |-> JoinDot(parentPathArr),
                              plugins |-> Append(@.plugins,
                                [name |-> methodName, opts |-> opts])]]
             /\ cursor' = [cursor EXCEPT !.arr = parentPathArr]
        ELSE /\ namespaced = {}
             /\ opts = "f"
             /\ UNCHANGED chains
             /\ cursor' = NoCursor
  /\ applied' = NotApplied
  /\ UNCHANGED <<vars, registryVars, pathVars, nodeVars>>

\* processConfig for the node at path, whose state has a numeric price or
\* not
ProcessConfig(path, price) ==
  /\ applied' = [path |-> path, price |-> price,
                 result |-> processChains(chains, path, price), n |-> 1]
  /\ cursor' = NoCursor
  /\ UNCHANGED <<chains, vars, registryVars, pathVars, nodeVars>>

ConfigNext ==
  \/ \E prop \in Names \cup Methods : RootGet(prop)
  \/ \E prop \in Names \cup Methods : ChainGet(prop)
  \/ \E opts \in TargetOptions \cup ExtendOptions : ChainCall(opts)
  \/ \E path \in NodePaths, price \in BOOLEAN : ProcessConfig(path, price)

ConfigSpec == Loaded /\ [][ConfigNext]_configVars



\* ---- which chains processConfig applies ----

Processed == applied.n = 1

TargetEntries(chain) ==
  {i \in 1..Len(chain.plugins) : chain.plugins[i].name = "target"}

OtherEntries(chain) == (1..Len(chain.plugins)) \ TargetEntries(chain)

\* The sequence holds each member of the set once, in increasing order.
EachInOrder(seq, set) ==
  /\ Range(seq) = set
  /\ \A i, j \in 1..Len(seq) : i < j => seq[i] < seq[j]

\* Every targeter of the chain answers with a true value for the node.
AllTargeted(chain, path, price) ==
  \A i \in TargetEntries(chain) :
    Truthy(target(path, price, chain.plugins[i].opts))

\* C22 as stated: a chain with target entries has its other plugins applied
\* to a node exactly when every targeter answers true for the node's path
\* and state, and target entries are never run.
C22_Original ==
  Processed =>
    \A k \in 1..Len(chains) :
      hasTargeters(chains[k]) =>
        /\ AllTargeted(chains[k], applied.path, applied.price) =>
             EachInOrder(applied.result[k].ran, OtherEntries(chains[k]))
        /\ ~AllTargeted(chains[k], applied.path, applied.price) =>
             applied.result[k].ran = <<>>
        /\ \A i \in TargetEntries(chains[k]) :
             i \notin Range(applied.result[k].ran)

\* C22: a chain with target entries has its other plugins applied to a node
\* exactly when the node's path starts with the chain's path and every
\* targeter answers with a true value for the node's path and state; the
\* targeters are asked in order until one answers false, the ones after it
\* are not asked and nothing is applied; target entries are never run, and
\* a chain whose path the node's path does not start with asks no targeter.
C22_TargetedConfiguration ==
  Processed =>
    \A k \in 1..Len(chains) :
      hasTargeters(chains[k]) =>
        LET chain == chains[k]
            r == applied.result[k]
            covered == StartsWith(applied.path, chain.path)
            all == AllTargeted(chain, applied.path, applied.price)
            refusing == {i \in TargetEntries(chain) :
                           ~Truthy(target(applied.path, applied.price,
                                          chain.plugins[i].opts))}
        IN /\ (covered /\ all) => EachInOrder(r.ran, OtherEntries(chain))
           /\ ~(covered /\ all) => r.ran = <<>>
           /\ \A i \in TargetEntries(chain) : i \notin Range(r.ran)
           /\ ~covered => r.asked = <<>>
           /\ covered =>
                EachInOrder(r.asked,
                  {i \in TargetEntries(chain) :
                     \A j \in refusing : i <= j})

\* A chain with two targeters and another plugin, processed for a node
\* below the chain's path for which both targeters answer true: both are
\* asked and the other plugin is applied.
C22_Witness ==
  /\ Processed
  /\ \E k \in 1..Len(chains) :
       /\ chains[k].path = <<"$", ".", "a">>
       /\ applied.path = <<"$", ".", "a", "[", "0", "]">>
       /\ Len(applied.result[k].asked) = 2
       /\ applied.result[k].ran # <<>>
       /\ \E i \in TargetEntries(chains[k]) :
            chains[k].plugins[i].opts = "isItem"


\* ---- pending paths and the flush ----

\* C31 as stated: pendingPaths is empty whenever batchMode is false, also
\* while the callbacks of a flush are running.
C31_Original == ~batchMode => pendingPaths = <<>>


\* ---- a subscription whose initial run throws ----

\* watch(c) was called and its initial run ended with an exception, so that
\* watch returned no stop function.
FailedWatch(c) ==
  /\ c \in 1..created
  /\ c \notin stops
  /\ \A i \in 1..Depth : ~(stack[i].kind = "run" /\ stack[i].flag
                            /\ stack[i].cb = c)

\* C39 as stated: a callback whose initial run threw has no dependency edge
\* in either index and is not invoked again.
C39_Original ==
  \A c \in Callbacks :
    FailedWatch(c) =>
      /\ c \notin DOMAIN callbackPaths
      /\ \A p \in DOMAIN pathDependencies : c \notin Range(pathDependencies[p])
      /\ \A i \in 1..Depth : ~(stack[i].kind = "run" /\ stack[i].cb = c)


\* ---- cascades: callbacks whose bodies are fixed programs ----

\* One call of a body: onGet or onSet of a path, or batch or ignore of a
\* function that makes the calls fn.
Op(o, p, f) == [op |-> o, path |-> p, fn |-> f]

\* The bodies: a callback that writes the path it reads at once, inside
\* batch, or inside ignore, and two that write the path the other reads.
Bodies ==
  <<
    <<Op("get", PathOf(1), <<>>), Op("set", PathOf(1), <<>>)>>,
    <<Op("get", PathOf(1), <<>>),
      Op("batch", NoPath, <<Op("set", PathOf(1), <<>>)>>)>>,
    <<Op("get", PathOf(1), <<>>),
      Op("ignore", NoPath, <<Op("set", PathOf(1), <<>>)>>)>>,
    <<Op("get", PathOf(1), <<>>), Op("set", PathOf(2), <<>>)>>,
    <<Op("get", PathOf(2), <<>>), Op("set", PathOf(1), <<>>)>>
  >>

\* The code of the top-level caller is not fixed: it calls watch, and
\* onSet and batch as it likes.
Free == <<Op("free", NoPath, <<>>)>>

Budget(f) == IF f.kind = "ignore" THEN MaxIgnoreOps ELSE MaxOps

\* The calls frame i has made.
Made(i) == Budget(stack[i]) - stack[i].left

\* The code frame i executes: the body of its callback, or the function
\* that the frame below gave to batch or ignore in its last call.
RECURSIVE Code(_)
Code(i) ==
  IF stack[i].kind = "run" THEN Bodies[programs[stack[i].cb]]
  ELSE IF i = 1 THEN Free
  ELSE LET below == Code(i - 1)
       IN IF below = Free THEN Free ELSE below[Made(i - 1)].fn

\* The next call of the running code.
NextOp ==
  IF Depth = 0 \/ Code(Depth) = Free THEN Op("free", NoPath, <<>>)
  ELSE IF Made(Depth) + 1 > Len(Code(Depth)) THEN Op("done", NoPath, <<>>)
  ELSE Code(Depth)[Made(Depth) + 1]

May(o, p) ==
  /\ programs # <<>>
  /\ Depth > 0 => Top.kind \in CodeKinds
  /\ \/ NextOp.op = "free" /\ o \in {"set", "batch"}
     \/ NextOp.op = o /\ NextOp.path = p

Finished ==
  /\ programs # <<>>
  /\ Depth > 0
  /\ Top.kind \in CodeKinds
  /\ NextOp.op \in {"free", "done"}

\* The callbacks that watch will be given, in order.
Load(bodies) ==
  /\ programs = <<>>
  /\ programs' = bodies
  /\ UNCHANGED <<activeDependency, pathDependencies, callbackPaths,
                 batchMode, ignoreMode, pendingPaths, batchLevel,
                 inProgress, unwatchedCallbacks, stack, created, stops,
                 everRead, ev>>
  /\ UNCHANGED <<registryVars, pathVars, nodeVars, configVars>>

CascadeNext ==
  \/ \E bodies \in [1..NumCallbacks -> 1..Len(Bodies)] : Load(bodies)
  \/ programs # <<>> /\ Depth = 0 /\ Watch
  \/ \E path \in Paths : May("get", path) /\ OnGet(path)
  \/ \E path \in Paths : May("set", path) /\ OnSet(path)
  \/ May("batch", NoPath) /\ Batch
  \/ May("ignore", NoPath) /\ Ignore
  \/ programs # <<>> /\ PassStep
  \/ Finished /\ Return

CascadeSpec == Loaded /\ [][CascadeNext]_vars

\* An execution of a callback began in the watcher state in which an
\* execution of the same callback, still on the stack, began.
Recurs ==
  \E i, j \in 1..Depth :
    /\ i < j
    /\ stack[i].kind = "run" /\ stack[j].kind = "run"
    /\ stack[i].cb = stack[j].cb
    /\ stack[i].entry # <<>>
    /\ stack[i].entry = stack[j].entry

\* C32 as stated: every cascade ends.  The bodies are fixed programs and
\* the watcher's behaviour depends on its state alone, so an execution that
\* begins in the state in which an unfinished execution of the same
\* callback began repeats the calls that led to it and never returns: a
\* cascade that ends has no such execution.
C32_Original == ~Recurs


\* onGet: the paths for which the callback of the last root.watch was
\* recorded as a dependent, that is the paths onGet was called with on the
\* watcher whose activeDependency the callback is.
Registered ==
  IF last.op = "watch"
  THEN {calls[i].path : i \in {j \in 1..Len(calls) :
                                 /\ calls[j].op = "onGet"
                                 /\ calls[j].watcher = watchers[last.value.v]}}
  ELSE {}

\* C33 as stated: the eager walk registers no dependencies. A callback
\* that reads one property is recorded for the path of that property at
\* most, also when the read constructs the child node of an object
\* assigned earlier.
C33_Original ==
  last.op = "watch" =>
    Registered \subseteq {nextPath(proxies[last.node].path, last.prop)}


\* The raw objects a raw object holds in its properties, as they are or as
\* their proxies.
Held(w, raw) ==
  {ObjectOf(w, w.heap[raw][k]) : k \in DOMAIN w.heap[raw]} \ {None}

\* The raw objects from which following properties leads back to them.
RECURSIVE HeldWithin(_, _, _)
HeldWithin(w, raws, n) ==
  IF n = 0 THEN raws
  ELSE HeldWithin(w, raws \cup UNION {Held(w, r) : r \in raws}, n - 1)

Cyclic(w, raw) == raw \in HeldWithin(w, Held(w, raw), NumRaws)

\* The walk of proxy p has left no object unwrapped: every property of its
\* state that the get trap tracks and that holds an object holds one that
\* has a proxy.
Walked(w, p) ==
  \A k \in DOMAIN w.heap[w.proxies[p].state] :
    LET value == Resolved(w, p, k)
    IN  (~SkipsWatcher(w, p, k) /\ ObjectOf(w, value) # None) =>
          ObjectOf(w, value) \in DOMAIN w.sources

\* C34: cyclic state is safe to construct. In every state, and so for
\* every state graph with a cycle (an object that holds itself, a proxy
\* stored in its own tree), making a node of an object that has none
\* returns: it makes one proxy for the object and one for each object the
\* walk reaches that had none, never two for one object, and every new
\* proxy has walked its state. Reading a member that closes a cycle
\* returns the proxy that exists for the object and makes none.
C34_CyclicConstruction ==
  /\ \A r \in Raws \ DOMAIN sources : \A config \in Configs :
       LET made == node(World, RawRef(r), None, <<"$">>, config)
           w == made.w
       IN  /\ made.ret.t = "node"
           /\ w.proxies[made.ret.v].state = r
           /\ Len(w.proxies) <= NumRaws
           /\ \A p, q \in 1..Len(w.proxies) :
                w.proxies[p].state = w.proxies[q].state => p = q
           /\ \A p \in 1..Len(w.proxies) :
                /\ w.sources[w.proxies[p].state] = p
                /\ p > Len(proxies) => Walked(w, p)
  /\ \A p \in Proxies : \A prop \in {NameA, NameB} :
       LET value == Resolved(World, p, prop)
           raw == ObjectOf(World, value)
       IN  (/\ raw # None
            /\ ~SkipsWatcher(World, p, prop)
            /\ Cyclic(World, raw)
            /\ raw \in DOMAIN sources) =>
             LET read == GetTrap(World, p, prop)
             IN  /\ read.ret = NodeRef(sources[raw])
                 /\ read.w.proxies = proxies
  /\ (/\ last.op = "get"
      /\ last.ret.t = "node"
      /\ Cyclic(World, proxies[last.ret.v].state)) =>
       /\ ObjectOf(World, Resolved(World, last.node, last.prop)) =
            proxies[last.ret.v].state
       /\ sources[proxies[last.ret.v].state] = last.ret.v

\* A node has been made of an object that holds itself, and reading the
\* member gives the node.
C34_Witness ==
  /\ last.op = "node"
  /\ last.value = Nested
  /\ NameA \in DOMAIN heap[NumRaws]
  /\ heap[NumRaws][NameA] = Nested
  /\ last.ret.t = "node"
  /\ proxies[last.ret.v].root = None
  /\ GetTrap(World, last.ret.v, NameA).ret = last.ret
  /\ Len(proxies) = 1


\* C37: deleting a reference property un-marks it. In every state, for
\* every name in a node's reference set, the deleteProperty trap removes
\* the key from the raw target, calls onDelete once with the child path on
\* the watcher of the node's root and takes the name out of the reference
\* set; a write to the name made next calls onSet once with that path.
\* After a delete the name is not a reference, and a write to a name that
\* has an extension value and is not a reference calls onSet.
C37_DeleteUnmarks ==
  /\ \A p \in Proxies : \A prop \in references[p] :
       LET w == DeleteTrap(World, p, prop)
       IN  /\ prop \notin DOMAIN w.heap[proxies[p].state]
           /\ Len(w.calls) = 1
           /\ w.calls[1].op = "onDelete"
           /\ w.calls[1].path = deletePropPath(proxies[p].path, prop)
           /\ w.calls[1].watcher = watchers[RootOf(World, p)]
           /\ w.references[p] = references[p] \ {prop}
           /\ \A value \in DataValues :
                LET cs == SetTrap([w EXCEPT !.calls = <<>>], p, prop,
                                  value).calls
                IN  /\ Len(cs) = 1
                    /\ cs[1].op = "onSet"
                    /\ cs[1].path = setPropPath(proxies[p].path, prop)
  /\ last.op = "delete" =>
       /\ last.prop \notin references[last.node]
       /\ last.prop \notin DOMAIN heap[proxies[last.node].state]
       /\ Len(calls) = 1
       /\ calls[1].op = "onDelete"
  /\ (/\ last.op = "set"
      /\ last.prop \in DOMAIN extensions[last.node]
      /\ last.prop \notin references[last.node]) =>
       /\ Len(calls) = 1
       /\ calls[1].op = "onSet"
       /\ calls[1].path = setPropPath(proxies[last.node].path, last.prop)

\* A name that an extension had marked as a reference was deleted and has
\* been written again: the write called onSet.
C37_Witness ==
  /\ last.op = "set"
  /\ last.prop = NameA
  /\ proxies[last.node].config.key = KeyARef
  /\ proxies[last.node].path = proxies[last.node].config.at
  /\ NameA \in DOMAIN extensions[last.node]
  /\ NameA \notin references[last.node]
  /\ Len(calls) = 1
  /\ calls[1].op = "onSet"


RECURSIVE toJSONReturns(_, _, _)
RECURSIVE stringifyReturns(_, _, _, _)

\* proxy.toJSON() of the node of raw comes to an end, by a result or by an
\* exception of its own, within a call stack of depth calls: a value that
\* has a proxy is serialized by the toJSON of the proxy, any other object
\* by JSON.stringify.
toJSONReturns(w, raw, depth) ==
  IF depth = 0 THEN FALSE
  ELSE \A k \in DOMAIN w.heap[raw] :
         LET value == w.heap[raw][k]
         IN  IF value.t = "raw" /\ value.v \in DOMAIN w.sources
             THEN toJSONReturns(w, value.v, depth - 1)
             ELSE IF value.t \in {"raw", "node"}
             THEN stringifyReturns(w, value, depth - 1, {})
             ELSE TRUE

\* JSON.stringify(value): the toJSON method of a proxy, or of a state
\* object that has a proxy, is called before the object is looked at; an
\* object met again below itself ends the call with a TypeError.
stringifyReturns(w, value, depth, above) ==
  IF value.t = "node"
  THEN toJSONReturns(w, w.proxies[value.v].state, depth)
  ELSE IF value.t # "raw" THEN TRUE
  ELSE IF value.v \in DOMAIN w.sources
  THEN toJSONReturns(w, value.v, depth)
  ELSE IF value.v \in above THEN TRUE
  ELSE IF depth = 0 THEN FALSE
  ELSE \A k \in DOMAIN w.heap[value.v] :
         stringifyReturns(w, w.heap[value.v][k], depth - 1,
                          above \cup {value.v})

\* C40 as stated: toJSON terminates. The toJSON call of any node, cyclic
\* state included, comes to an end without exhausting the call stack.
C40_Original ==
  last.op = "toJSON" =>
    toJSONReturns(World, proxies[last.node].state, MaxJsonDepth)


\* The nodes that reading a property of proxy p returns.
Members(p) ==
  {q \in Proxies : \E prop \in {NameA, NameB} :
     GetTrap(World, p, prop).ret = NodeRef(q)}

\* The nodes reached from the proxies ps by property traversal.
RECURSIVE ReachedFrom(_, _)
ReachedFrom(ps, n) ==
  IF n = 0 THEN ps
  ELSE ReachedFrom(ps \cup UNION {Members(p) : p \in ps}, n - 1)

\* C38 as stated: every node reports to the watcher of the tree it is
\* reached through. For every root R and every node reached from R by
\* property traversal, a read of a tracked property calls onGet and a
\* write calls onSet on the watcher of R, and a read made by a callback of
\* R.watch records the callback as a dependent.
C38_Original ==
  /\ \A R \in DOMAIN watchers : \A p \in ReachedFrom({R}, NumRaws) :
       \A prop \in {NameA, NameB} \ references[p] :
         /\ \A value \in DataValues :
              \A i \in 1..Len(SetTrap(World, p, prop, value).calls) :
                SetTrap(World, p, prop, value).calls[i].watcher = watchers[R]
         /\ LET cs == GetTrap(World, p, prop).w.calls
            IN  \A i \in 1..Len(cs) : cs[i].watcher = watchers[R]
  /\ (/\ last.op = "watch"
      /\ last.node \in ReachedFrom({last.value.v}, NumRaws)
      /\ last.prop \notin references[last.node]) =>
       Registered # {}


\* C36 as stated: the set trap cannot reject an assignment. Every
\* assignment through a proxy, whatever the key (a name, an index, a
\* symbol) and the value, ends without an error, reports success, and has
\* stored the value.
C36_Original ==
  last.op = "assign" =>
    /\ last.ret.t = "true"
    /\ Resolved(World, last.node, last.prop) = last.value


\* What the extension map of proxy p holds for prop: "setter" for a
\* descriptor with a setter, "value" for one with a literal value, "getter"
\* for one with neither, "none" without a descriptor.
DescriptorKind(w, p, prop) ==
  IF prop \notin DOMAIN w.extensions[p] THEN "none"
  ELSE IF w.extensions[p][prop].t = "accessor" THEN "setter"
  ELSE IF HasValue(w.extensions[p][prop]) THEN "value"
  ELSE "getter"

\* The target of proxy p is as the extension left it at prop: a name
\* defined with a value still has that value there, any other is absent.
TargetUntouched(p, prop) ==
  LET object == heap[proxies[p].state]
  IN  prop \in DOMAIN object => object[prop] = ExtensionValue

\* C35 as stated: set-trap dispatch. After proxy[prop] = value has ended
\* normally, a descriptor with a setter has received the value and the
\* target is untouched; else a descriptor with a literal value holds the
\* value, the target is untouched and a get returns the value; in every
\* other case, a descriptor with a getter only included, the target holds
\* the value at prop.
C35_Original ==
  (last.op = "assign" /\ last.ret.t = "true") =>
    LET p == last.node
        prop == last.prop
        kind == DescriptorKind(World, p, prop)
    IN  /\ kind = "setter" =>
             /\ extensions[p][prop] = Accessor(last.value.v)
             /\ TargetUntouched(p, prop)
        /\ kind = "value" =>
             /\ extensions[p][prop] = last.value
             /\ TargetUntouched(p, prop)
             /\ GetTrap(World, p, prop).ret = last.value
        /\ kind \in {"getter", "none"} =>
             /\ prop \in DOMAIN heap[proxies[p].state]
             /\ heap[proxies[p].state][prop] = last.value

\* C35: set-trap dispatch. In every state and for every key and value,
\* the set trap gives the value to the setter of the key's descriptor and
\* leaves the target and the other tables alone; else it replaces the
\* literal value of the descriptor, and a get returns the new value; else,
\* for a descriptor with a getter only, it stores nothing and a get returns
\* what the getter returns; without a descriptor it assigns to the target,
\* which holds the value afterwards unless it refuses the assignment, and
\* then nothing is stored and the call ends with a TypeError. The same is
\* found after every assignment made.
C35_SetDispatch ==
  /\ \A p \in Proxies : \A prop \in TrapKeys, value \in UserPrims :
       LET w == SetTrap(World, p, prop, value)
           kind == DescriptorKind(World, p, prop)
           raw == proxies[p].state
       IN  /\ kind = "setter" =>
                /\ w.heap = heap
                /\ w.extensions[p][prop] = Accessor(value.v)
                /\ Resolved(w, p, prop) = value
           /\ kind = "value" =>
                /\ w.heap = heap
                /\ w.extensions[p][prop] = value
                /\ GetTrap(w, p, prop).ret = value
           /\ kind = "getter" =>
                /\ w.heap = heap
                /\ w.extensions = extensions
                /\ GetTrap(w, p, prop).ret = ExtensionValue
                /\ SetOutcome(World, p, prop) = "true"
           /\ kind = "none" =>
                /\ w.extensions = extensions
                /\ IF Rejects(World, p, prop)
                   THEN /\ w = World
                        /\ SetOutcome(World, p, prop) = "TypeError"
                   ELSE /\ prop \in DOMAIN w.heap[raw]
                        /\ w.heap[raw][prop] = value
  /\ last.op = "assign" =>
       LET p == last.node
           prop == last.prop
           kind == DescriptorKind(World, p, prop)
           object == heap[proxies[p].state]
       IN  /\ kind = "setter" =>
                /\ extensions[p][prop] = Accessor(last.value.v)
                /\ prop \notin DOMAIN object
           /\ kind = "value" =>
                /\ extensions[p][prop] = last.value
                /\ TargetUntouched(p, prop)
                /\ GetTrap(World, p, prop).ret = last.value
           /\ kind = "getter" =>
                /\ extensions[p][prop] = GetterOnly
                /\ prop \notin DOMAIN object
                /\ last.ret.t = "true"
           /\ kind = "none" =>
                IF last.ret.t = "TypeError" /\ prop # SymbolKey
                THEN prop \notin DOMAIN object
                ELSE prop \in DOMAIN object /\ object[prop] = last.value

\* A name that an extension defines with a getter only has been assigned
\* to: the call ended normally and told the watcher, and nothing holds the
\* value.
C35_Witness ==
  /\ last.op = "assign"
  /\ last.prop = NameG
  /\ DescriptorKind(World, last.node, NameG) = "getter"
  /\ last.ret.t = "true"
  /\ NameG \notin DOMAIN heap[proxies[last.node].state]
  /\ Resolved(World, last.node, NameG) # last.value
  /\ Len(calls) = 1
  /\ calls[1].op = "onSet"

====
